---- MODULE Spec2Model ----
(***************************************************************************)
(* SmartShopSaver price tracker (src/price_tracker.py, src/main.py).       *)
(*                                                                         *)
(* Text is modelled as a sequence of characters.  An ASCII character is    *)
(* the one-character string itself ("a", " ", "5"); a CJK character is the *)
(* string "uXXXX" of its code point (U+8FFD U+8E64 is <<"u8ffd","u8e64">>).*)
(* Python's len(), slicing, `in`, str.replace and the regular expressions  *)
(* of the source work on characters, and so do the operators below.        *)
(*                                                                         *)
(* Optional values (Python None) are sequences of length 0 or 1:           *)
(* <<>> is None and <<v>> is the value v.                                  *)
(*                                                                         *)
(* A score (Python float in [0,1]) is an exact fraction <<num, den>>.      *)
(***************************************************************************)
EXTENDS Integers, Sequences, FiniteSets, TLC

VARIABLES
  \* --- DatabaseManager: the store -----------------------------------
  price_trackers,   \* table price_trackers: sequence of rows, row i has id i
  user_preferences, \* table user_preferences: user_id -> <<>> or <<row>>
  database_type,    \* "sqlite" or "postgresql"
  \* --- ContextAwarePriceTracker: one instance -----------------------
  user_trackers,    \* self.user_trackers: user_id -> <<>> (key absent) or <<list>>
  user_contexts,    \* self.user_contexts: user_id -> <<>> or <<context>>
  now,              \* datetime.now(), a logical clock
  notifications,    \* messages pushed through line_bot_api
  last,             \* the last request handled and its reply (observation)
  \* --- concurrent requests, each on its own instance ----------------
  req,              \* thread -> request state (pc, arguments, locals)
  \* --- application of one pure function -----------------------------
  fn                \* [op, args, res]

vars == <<price_trackers, user_preferences, database_type, user_trackers,
          user_contexts, now, notifications, last, req, fn>>


(***************************************************************************)
(* Characters and strings                                                  *)
(***************************************************************************)
None == <<>>
Some(v) == <<v>>

Min(a, b) == IF a <= b THEN a ELSE b
Max(a, b) == IF a >= b THEN a ELSE b

UpperChars == <<"A","B","C","D","E","F","G","H","I","J","K","L","M",
                "N","O","P","Q","R","S","T","U","V","W","X","Y","Z">>
LowerChars == <<"a","b","c","d","e","f","g","h","i","j","k","l","m",
                "n","o","p","q","r","s","t","u","v","w","x","y","z">>
DigitChars == <<"0","1","2","3","4","5","6","7","8","9">>

DigitSet == {DigitChars[i] : i \in 1..Len(DigitChars)}
DigitValueOf == [c \in DigitSet |-> (CHOOSE i \in 1..Len(DigitChars) : DigitChars[i] = c) - 1]
IsDigit(c) == c \in DigitSet
DigitValue(c) == DigitValueOf[c]

\* str.lower() on one character
LowerOf == [i \in 1..Len(UpperChars) |-> LowerChars[i]]
UpperSet == {UpperChars[i] : i \in 1..Len(UpperChars)}
UpperIndex == [c \in UpperSet |-> CHOOSE i \in 1..Len(UpperChars) : UpperChars[i] = c]
LowerChar(c) == IF c \in UpperSet THEN LowerOf[UpperIndex[c]] ELSE c

\* str.lower()
RECURSIVE Lower(_)
Lower(s) == IF Len(s) = 0 THEN <<>> ELSE <<LowerChar(s[1])>> \o Lower(Tail(s))

\* kw in s
Contains(kw, s) ==
  \E i \in 0..(Len(s) - Len(kw)) : SubSeq(s, i + 1, i + Len(kw)) = kw

\* any(kw in s for kw in kws), kws a sequence of strings
ContainsAny(kws, s) == \E i \in 1..Len(kws) : Contains(kws[i], s)

\* s[i:] starts with kw (i is 1-based)
MatchesAt(kw, s, i) ==
  /\ i + Len(kw) - 1 <= Len(s)
  /\ SubSeq(s, i, i + Len(kw) - 1) = kw

IsSpace(c) == c = " "

\* str.strip()
RECURSIVE LStrip(_)
LStrip(s) == IF Len(s) > 0 /\ IsSpace(s[1]) THEN LStrip(Tail(s)) ELSE s
RECURSIVE RStrip(_)
RStrip(s) ==
  IF Len(s) > 0 /\ IsSpace(s[Len(s)]) THEN RStrip(SubSeq(s, 1, Len(s) - 1)) ELSE s
Strip(s) == LStrip(RStrip(s))

\* str.split(): the whitespace-separated words, in order
RECURSIVE Split(_)
Split(s) ==
  LET t == LStrip(s) IN
  IF Len(t) = 0 THEN <<>>
  ELSE LET n == IF \E i \in 1..Len(t) : IsSpace(t[i])
                THEN (CHOOSE i \in 1..Len(t) :
                        IsSpace(t[i]) /\ \A j \in 1..(i - 1) : ~IsSpace(t[j])) - 1
                ELSE Len(t)
       IN <<SubSeq(t, 1, n)>> \o Split(SubSeq(t, n + 1, Len(t)))

\* ' '.join(words)
RECURSIVE JoinSpace(_)
JoinSpace(ws) ==
  IF Len(ws) = 0 THEN <<>>
  ELSE IF Len(ws) = 1 THEN ws[1]
  ELSE ws[1] \o <<" ">> \o JoinSpace(Tail(ws))

\* str.replace(old, new): every non-overlapping occurrence, left to right
RECURSIVE Replace(_, _, _)
Replace(s, old, new) ==
  IF Len(s) = 0 THEN <<>>
  ELSE IF MatchesAt(old, s, 1)
       THEN new \o Replace(SubSeq(s, Len(old) + 1, Len(s)), old, new)
       ELSE <<s[1]>> \o Replace(Tail(s), old, new)

\* str.split(sep) for a one-character separator: the parts, empty ones kept
RECURSIVE SplitOn(_, _)
SplitOn(s, sep) ==
  IF \E i \in 1..Len(s) : s[i] = sep
  THEN LET i == CHOOSE k \in 1..Len(s) : s[k] = sep /\ \A j \in 1..(k - 1) : s[j] # sep
       IN <<SubSeq(s, 1, i - 1)>> \o SplitOn(SubSeq(s, i + 1, Len(s)), sep)
  ELSE <<s>>

\* re.sub('(a|b|...)', rep, s): leftmost match, first alternative that matches
RECURSIVE SubAlt(_, _, _)
SubAlt(alts, rep, s) ==
  IF Len(s) = 0 THEN <<>>
  ELSE IF \E k \in 1..Len(alts) : MatchesAt(alts[k], s, 1)
       THEN LET k == CHOOSE x \in 1..Len(alts) :
                       /\ MatchesAt(alts[x], s, 1)
                       /\ \A y \in 1..(x - 1) : ~MatchesAt(alts[y], s, 1)
            IN rep \o SubAlt(alts, rep, SubSeq(s, Len(alts[k]) + 1, Len(s)))
       ELSE <<s[1]>> \o SubAlt(alts, rep, Tail(s))

\* characters that are neither \w nor \s (ASCII and full-width punctuation)
PunctChars ==
  {",", ".", "!", "?", "-", "/", "(", ")", "$", "+", ":", "'", "\"",
   "u3001", "uff0c", "u3002", "uff01", "uff1f"}

\* re.sub(r'[^\w\s]', ' ', s)
RECURSIVE SubPunct(_)
SubPunct(s) ==
  IF Len(s) = 0 THEN <<>>
  ELSE <<IF s[1] \in PunctChars THEN " " ELSE s[1]>> \o SubPunct(Tail(s))

\* the decimal digits of a natural number: str(int(x)) for x >= 0
RECURSIVE NatToStr(_)
NatToStr(n) ==
  IF n < 10 THEN <<DigitChars[n + 1]>>
  ELSE NatToStr(n \div 10) \o <<DigitChars[(n % 10) + 1]>>

\* the value of a string of decimal digits
RECURSIVE DigitsToNat(_)
DigitsToNat(s) ==
  IF Len(s) = 0 THEN 0
  ELSE 10 * DigitsToNat(SubSeq(s, 1, Len(s) - 1)) + DigitValue(s[Len(s)])

(***************************************************************************)
(* Fractions                                                               *)
(***************************************************************************)
Frac(n, d) == <<n, d>>
FracMul(a, b) == <<a[1] * b[1], a[2] * b[2]>>
FracLeq(a, b) == a[1] * b[2] <= b[1] * a[2]
FracGeq(a, b) == FracLeq(b, a)
FracMax(a, b) == IF FracGeq(a, b) THEN a ELSE b
FracEq(a, b) == a[1] * b[2] = b[1] * a[2]

(***************************************************************************)
(* Keyword tables of the source                                            *)
(***************************************************************************)
\* accessory_keywords['zh']
\*   保護套 | 保護殼 | 手機殼 | 螢幕保護貼 | 保護貼 | 鋼化膜 | 充電器 | 充電線 | 傳輸線 | USB | 轉接頭 | 轉接器 | 耳機套 | 耳機殼 | 耳機塞 | 耳塞 | 海綿套 | 支架 | 車架 | 桌架 | 手機架 | 貼紙 | 裝飾貼 | 彩繪 | 背貼 | 清潔 | 清潔劑 | 清潔布 | 拭鏡布 | 配件包 | 組合包 | 套裝 | 維修 | 更換 | 零件 | 適用於 | 相容
accessory_keywords_zh ==
  << <<"u4fdd","u8b77","u5957">>, <<"u4fdd","u8b77","u6bbc">>, <<"u624b","u6a5f","u6bbc">>,
     <<"u87a2","u5e55","u4fdd","u8b77","u8cbc">>, <<"u4fdd","u8b77","u8cbc">>,
     <<"u92fc","u5316","u819c">>, <<"u5145","u96fb","u5668">>, <<"u5145","u96fb","u7dda">>,
     <<"u50b3","u8f38","u7dda">>, <<"U","S","B">>, <<"u8f49","u63a5","u982d">>,
     <<"u8f49","u63a5","u5668">>, <<"u8033","u6a5f","u5957">>, <<"u8033","u6a5f","u6bbc">>,
     <<"u8033","u6a5f","u585e">>, <<"u8033","u585e">>, <<"u6d77","u7dbf","u5957">>,
     <<"u652f","u67b6">>, <<"u8eca","u67b6">>, <<"u684c","u67b6">>, <<"u624b","u6a5f","u67b6">>,
     <<"u8cbc","u7d19">>, <<"u88dd","u98fe","u8cbc">>, <<"u5f69","u7e6a">>, <<"u80cc","u8cbc">>,
     <<"u6e05","u6f54">>, <<"u6e05","u6f54","u5291">>, <<"u6e05","u6f54","u5e03">>,
     <<"u62ed","u93e1","u5e03">>, <<"u914d","u4ef6","u5305">>, <<"u7d44","u5408","u5305">>,
     <<"u5957","u88dd">>, <<"u7dad","u4fee">>, <<"u66f4","u63db">>, <<"u96f6","u4ef6">>,
     <<"u9069","u7528","u65bc">>, <<"u76f8","u5bb9">> >>

\* accessory_keywords['en']
\*   case | cover | protector | screen | tempered | glass | charger | cable | cord | adapter | usb | tips | foam | silicone | rubber | stand | holder | mount | dock | skin | decal | sticker | cleaning | cleaner | cloth | kit | bundle | package | replacement | spare | repair | compatible | for
accessory_keywords_en ==
  << <<"c","a","s","e">>, <<"c","o","v","e","r">>, <<"p","r","o","t","e","c","t","o","r">>,
     <<"s","c","r","e","e","n">>, <<"t","e","m","p","e","r","e","d">>, <<"g","l","a","s","s">>,
     <<"c","h","a","r","g","e","r">>, <<"c","a","b","l","e">>, <<"c","o","r","d">>,
     <<"a","d","a","p","t","e","r">>, <<"u","s","b">>, <<"t","i","p","s">>, <<"f","o","a","m">>,
     <<"s","i","l","i","c","o","n","e">>, <<"r","u","b","b","e","r">>, <<"s","t","a","n","d">>,
     <<"h","o","l","d","e","r">>, <<"m","o","u","n","t">>, <<"d","o","c","k">>,
     <<"s","k","i","n">>, <<"d","e","c","a","l">>, <<"s","t","i","c","k","e","r">>,
     <<"c","l","e","a","n","i","n","g">>, <<"c","l","e","a","n","e","r">>,
     <<"c","l","o","t","h">>, <<"k","i","t">>, <<"b","u","n","d","l","e">>,
     <<"p","a","c","k","a","g","e">>, <<"r","e","p","l","a","c","e","m","e","n","t">>,
     <<"s","p","a","r","e">>, <<"r","e","p","a","i","r">>,
     <<"c","o","m","p","a","t","i","b","l","e">>, <<"f","o","r">> >>

\* brand_exclusions, in the order of the dict: <<family keyword, competing brands>>
brand_exclusions ==
  << 
     <<<<"i","p","h","o","n","e">>,
        <<<<"s","a","m","s","u","n","g">>, <<"x","i","a","o","m","i">>, <<"o","p","p","o">>, <<"v","i","v","o">>, <<"h","u","a","w","e","i">>, <<"s","o","n","y">>, <<"h","t","c">>>>>>,
     <<<<"p","s","5">>,
        <<<<"x","b","o","x">>, <<"s","w","i","t","c","h">>, <<"n","i","n","t","e","n","d","o">>, <<"p","c">>>>>>,
     <<<<"a","i","r","p","o","d","s">>,
        <<<<"s","o","n","y">>, <<"b","o","s","e">>, <<"s","e","n","n","h","e","i","s","e","r">>, <<"j","b","l">>, <<"b","e","a","t","s">>>>>>,
     <<<<"m","a","c","b","o","o","k">>,
        <<<<"d","e","l","l">>, <<"h","p">>, <<"a","s","u","s">>, <<"a","c","e","r">>, <<"l","e","n","o","v","o">>, <<"m","s","i">>>>>>,
     <<<<"v","i","p","e","r">>,
        <<<<"l","o","g","i","t","e","c","h">>, <<"s","t","e","e","l","s","e","r","i","e","s">>, <<"c","o","r","s","a","i","r">>, <<"r","o","c","c","a","t">>>>>> >>

\* intent_patterns['price_query']
\*   多少錢 | 價格 | 查價 | 比價 | 查詢 | 搜尋 | 賣多少 | 現在多少 | 目前價格 | 市價 | 行情 | 值多少 | 要花多少 | 成本 | 售價
price_query_keywords ==
  << <<"u591a","u5c11","u9322">>, <<"u50f9","u683c">>, <<"u67e5","u50f9">>, <<"u6bd4","u50f9">>,
     <<"u67e5","u8a62">>, <<"u641c","u5c0b">>, <<"u8ce3","u591a","u5c11">>,
     <<"u73fe","u5728","u591a","u5c11">>, <<"u76ee","u524d","u50f9","u683c">>,
     <<"u5e02","u50f9">>, <<"u884c","u60c5">>, <<"u503c","u591a","u5c11">>,
     <<"u8981","u82b1","u591a","u5c11">>, <<"u6210","u672c">>, <<"u552e","u50f9">> >>

\* intent_patterns['track_product']
\*   追蹤 | 監控 | 通知 | 提醒 | 關注 | 盯著 | 降價 | 便宜 | 打折 | 特價 | 優惠 | 等 | 等到 | 到時候 | 的話 | 如果 | 當
track_product_keywords ==
  << <<"u8ffd","u8e64">>, <<"u76e3","u63a7">>, <<"u901a","u77e5">>, <<"u63d0","u9192">>,
     <<"u95dc","u6ce8">>, <<"u76ef","u8457">>, <<"u964d","u50f9">>, <<"u4fbf","u5b9c">>,
     <<"u6253","u6298">>, <<"u7279","u50f9">>, <<"u512a","u60e0">>, <<"u7b49">>,
     <<"u7b49","u5230">>, <<"u5230","u6642","u5019">>, <<"u7684","u8a71">>, <<"u5982","u679c">>,
     <<"u7576">> >>

\* product_aliases flattened in iteration order: <<alias, standard>>
\*   iphone: 蘋果手機 | 愛鳳 | i鳳 | 蘋果機
\*   airpods: 蘋果耳機 | 無線耳機 | airpod
\*   ps5: PlayStation 5 | playstation5 | ps5主機 | 遊戲機
\*   switch: 任天堂 | nintendo switch | ns
\*   macbook: 蘋果筆電 | mac筆電 | macbook pro | macbook air
\*   viper: viper v3 | viper v2 | viper v3pro | viper v2pro
product_aliases ==
  <<
     <<<<"u860b","u679c","u624b","u6a5f">>, <<"i","p","h","o","n","e">>>>,
     <<<<"u611b","u9cf3">>, <<"i","p","h","o","n","e">>>>,
     <<<<"i","u9cf3">>, <<"i","p","h","o","n","e">>>>,
     <<<<"u860b","u679c","u6a5f">>, <<"i","p","h","o","n","e">>>>,
     <<<<"u860b","u679c","u8033","u6a5f">>, <<"a","i","r","p","o","d","s">>>>,
     <<<<"u7121","u7dda","u8033","u6a5f">>, <<"a","i","r","p","o","d","s">>>>,
     <<<<"a","i","r","p","o","d">>, <<"a","i","r","p","o","d","s">>>>,
     <<<<"P","l","a","y","S","t","a","t","i","o","n"," ","5">>, <<"p","s","5">>>>,
     <<<<"p","l","a","y","s","t","a","t","i","o","n","5">>, <<"p","s","5">>>>,
     <<<<"p","s","5","u4e3b","u6a5f">>, <<"p","s","5">>>>,
     <<<<"u904a","u6232","u6a5f">>, <<"p","s","5">>>>,
     <<<<"u4efb","u5929","u5802">>, <<"s","w","i","t","c","h">>>>,
     <<<<"n","i","n","t","e","n","d","o"," ","s","w","i","t","c","h">>, <<"s","w","i","t","c","h">>>>,
     <<<<"n","s">>, <<"s","w","i","t","c","h">>>>,
     <<<<"u860b","u679c","u7b46","u96fb">>, <<"m","a","c","b","o","o","k">>>>,
     <<<<"m","a","c","u7b46","u96fb">>, <<"m","a","c","b","o","o","k">>>>,
     <<<<"m","a","c","b","o","o","k"," ","p","r","o">>, <<"m","a","c","b","o","o","k">>>>,
     <<<<"m","a","c","b","o","o","k"," ","a","i","r">>, <<"m","a","c","b","o","o","k">>>>,
     <<<<"v","i","p","e","r"," ","v","3">>, <<"v","i","p","e","r">>>>,
     <<<<"v","i","p","e","r"," ","v","2">>, <<"v","i","p","e","r">>>>,
     <<<<"v","i","p","e","r"," ","v","3","p","r","o">>, <<"v","i","p","e","r">>>>,
     <<<<"v","i","p","e","r"," ","v","2","p","r","o">>, <<"v","i","p","e","r">>>> >>

\* cleaning_patterns[0]: alternatives in order
\*   請 | 幫我 | 給我 | 我要 | 想要 | 想買 | 想查 | 查詢 | 查看 | 搜尋 | 比價
cleaning_pattern_1 ==
  << <<"u8acb">>, <<"u5e6b","u6211">>, <<"u7d66","u6211">>, <<"u6211","u8981">>,
     <<"u60f3","u8981">>, <<"u60f3","u8cb7">>, <<"u60f3","u67e5">>, <<"u67e5","u8a62">>,
     <<"u67e5","u770b">>, <<"u641c","u5c0b">>, <<"u6bd4","u50f9">> >>

\* cleaning_patterns[1]: alternatives in order
\*   價格 | 多少錢 | 賣多少 | 值多少 | 要多少
cleaning_pattern_2 ==
  << <<"u50f9","u683c">>, <<"u591a","u5c11","u9322">>, <<"u8ce3","u591a","u5c11">>,
     <<"u503c","u591a","u5c11">>, <<"u8981","u591a","u5c11">> >>

\* cleaning_patterns[2]: alternatives in order
\*   追蹤 | 監控 | 通知 | 提醒 | 關注
cleaning_pattern_3 ==
  << <<"u8ffd","u8e64">>, <<"u76e3","u63a7">>, <<"u901a","u77e5">>, <<"u63d0","u9192">>,
     <<"u95dc","u6ce8">> >>

\* cleaning_patterns[3]: alternatives in order
\*   低於 | 少於 | 小於 | 不超過 | 以下 | 以內
cleaning_pattern_4 ==
  << <<"u4f4e","u65bc">>, <<"u5c11","u65bc">>, <<"u5c0f","u65bc">>, <<"u4e0d","u8d85","u904e">>,
     <<"u4ee5","u4e0b">>, <<"u4ee5","u5167">> >>

\* cleaning_patterns[4]: alternatives in order
\*   的 | 之 | 、 | ， | 。 | ！ | ？
cleaning_pattern_5 ==
  << <<"u7684">>, <<"u4e4b">>, <<"u3001">>, <<"uff0c">>, <<"u3002">>, <<"uff01">>, <<"uff1f">> >>

\* conservative_patterns[0]: ^(...)
\*   請 | 幫我 | 給我 | 我要
conservative_prefix ==
  << <<"u8acb">>, <<"u5e6b","u6211">>, <<"u7d66","u6211">>, <<"u6211","u8981">> >>

\* conservative_patterns[1]: (...)$
\*   多少錢 | 價格
conservative_suffix ==
  << <<"u591a","u5c11","u9322">>, <<"u50f9","u683c">> >>

\* anaphoric references of the context shortcut
\*   這個 | 它 | 那個 | 同樣
anaphora_words ==
  << <<"u9019","u500b">>, <<"u5b83">>, <<"u90a3","u500b">>, <<"u540c","u6a23">> >>

\* settings keywords
\*   設定 | 偏好 | 配件 | 過濾
settings_keywords ==
  << <<"u8a2d","u5b9a">>, <<"u504f","u597d">>, <<"u914d","u4ef6">>, <<"u904e","u6ffe">> >>

\* listing keywords
\*   清單 | 列表 | 我的追蹤
listing_keywords ==
  << <<"u6e05","u55ae">>, <<"u5217","u8868">>, <<"u6211","u7684","u8ffd","u8e64">> >>

\* help keywords
\*   說明 | 幫助 | help | 使用方法
help_keywords ==
  << <<"u8aaa","u660e">>, <<"u5e6b","u52a9">>, <<"h","e","l","p">>,
     <<"u4f7f","u7528","u65b9","u6cd5">> >>

\* fuzzy_intent_matching: product_keywords
\*   iphone | ipad | macbook | airpods | apple | samsung | xiaomi | oppo | vivo | huawei | ps5 | ps4 | xbox | switch | nintendo | viper | razer | logitech | corsair | 手機 | 筆電 | 電腦 | 平板 | 耳機 | 滑鼠 | 鍵盤
product_keywords ==
  << <<"i","p","h","o","n","e">>, <<"i","p","a","d">>, <<"m","a","c","b","o","o","k">>,
     <<"a","i","r","p","o","d","s">>, <<"a","p","p","l","e">>, <<"s","a","m","s","u","n","g">>,
     <<"x","i","a","o","m","i">>, <<"o","p","p","o">>, <<"v","i","v","o">>,
     <<"h","u","a","w","e","i">>, <<"p","s","5">>, <<"p","s","4">>, <<"x","b","o","x">>,
     <<"s","w","i","t","c","h">>, <<"n","i","n","t","e","n","d","o">>, <<"v","i","p","e","r">>,
     <<"r","a","z","e","r">>, <<"l","o","g","i","t","e","c","h">>,
     <<"c","o","r","s","a","i","r">>, <<"u624b","u6a5f">>, <<"u7b46","u96fb">>,
     <<"u96fb","u8166">>, <<"u5e73","u677f">>, <<"u8033","u6a5f">>, <<"u6ed1","u9f20">>,
     <<"u9375","u76e4">> >>

\* fuzzy_intent_matching: cheaper/lower words
\*   便宜 | 降 | 低 | 少 | 打折
fuzzy_track_words ==
  << <<"u4fbf","u5b9c">>, <<"u964d">>, <<"u4f4e">>, <<"u5c11">>, <<"u6253","u6298">> >>

\* fuzzy_intent_matching: how-much words
\*   多少 | 價格 | 錢
fuzzy_price_words ==
  << <<"u591a","u5c11">>, <<"u50f9","u683c">>, <<"u9322">> >>

(***************************************************************************)
(* ProductFilterEngine                                                     *)
(***************************************************************************)
\* is_accessory(product_name)
is_accessory(product_name) ==
  LET InLists(product_lower) ==
        \/ ContainsAny(accessory_keywords_zh, product_lower)
        \/ ContainsAny(accessory_keywords_en, product_lower)
  IN InLists(Lower(product_name))

\* the first family of the table whose keyword the target contains: its
\* index, 0 when there is none (target_brand = None)
TargetBrand(exclusions, target_lower) ==
  IF \E i \in 1..Len(exclusions) : Contains(exclusions[i][1], target_lower)
  THEN CHOOSE i \in 1..Len(exclusions) :
         /\ Contains(exclusions[i][1], target_lower)
         /\ \A j \in 1..(i - 1) : ~Contains(exclusions[j][1], target_lower)
  ELSE 0

\* has_brand_conflict(product_name, target_name)
has_brand_conflict(product_name, target_name) ==
  LET Conflict(exclusions, target_brand) ==
        IF target_brand = 0 THEN FALSE
        ELSE ContainsAny(exclusions[target_brand][2], Lower(product_name))
      Within(exclusions) ==
        Conflict(exclusions, TargetBrand(exclusions, Lower(target_name)))
  IN Within(brand_exclusions)

\* difflib.SequenceMatcher: the number of characters in the matching blocks
\* (longest block first, the earliest in a, then the earliest in b; then the
\* pieces left and right of it).  The inputs are far below the 200 characters
\* at which the autojunk heuristic starts.
RECURSIVE MatchingChars(_, _)
MatchingChars(a, b) ==
  LET Longest(blocks) ==
        CHOOSE x \in blocks :
          \A y \in blocks :
            \/ x[3] > y[3]
            \/ /\ x[3] = y[3]
               /\ \/ x[1] < y[1]
                  \/ x[1] = y[1] /\ x[2] <= y[2]
      Around(m) ==
        m[3]
        + MatchingChars(SubSeq(a, 1, m[1] - 1), SubSeq(b, 1, m[2] - 1))
        + MatchingChars(SubSeq(a, m[1] + m[3], Len(a)), SubSeq(b, m[2] + m[3], Len(b)))
      Of(blocks) == IF blocks = {} THEN 0 ELSE Around(Longest(blocks))
  IN IF Len(a) = 0 \/ Len(b) = 0 THEN 0
     ELSE Of({x \in (1..Len(a)) \X (1..Len(b)) \X (1..Min(Len(a), Len(b))) :
                /\ x[1] + x[3] - 1 <= Len(a)
                /\ x[2] + x[3] - 1 <= Len(b)
                /\ SubSeq(a, x[1], x[1] + x[3] - 1) = SubSeq(b, x[2], x[2] + x[3] - 1)})

\* SequenceMatcher(None, a, b).ratio() = 2.0 * matches / (len(a) + len(b))
SequenceRatio(a, b) ==
  IF Len(a) + Len(b) = 0 THEN Frac(1, 1)
  ELSE Frac(2 * MatchingChars(a, b), Len(a) + Len(b))

\* set(clean.split())
WordSet(clean) ==
  LET Of(words) == {words[i] : i \in 1..Len(words)} IN Of(Split(clean))

\* calculate_relevance_score up to and including the accessory penalty
\* (the value of base_score when line 153 is reached)
ScoreBeforeBrandPenalty(product_name, target_name) ==
  LET AccessoryPenalty(base_score) ==
        IF is_accessory(product_name) THEN FracMul(base_score, Frac(3, 10))
        ELSE base_score
      KeywordScore(text_score, target_words, product_words) ==
        IF target_words # {}
        THEN FracMax(text_score,
                     FracMul(Frac(Cardinality(target_words \cap product_words),
                                  Cardinality(target_words)),
                             Frac(7, 10)))
        ELSE text_score
      BaseScore(product_clean, target_clean) ==
        KeywordScore(IF Contains(target_clean, product_clean)
                     THEN Frac(8, 10)
                     ELSE SequenceRatio(product_clean, target_clean),
                     WordSet(target_clean), WordSet(product_clean))
      Clean(name) == Strip(SubPunct(Lower(name)))
  IN AccessoryPenalty(BaseScore(Clean(product_name), Clean(target_name)))

\* calculate_relevance_score(product_name, target_name)
calculate_relevance_score(product_name, target_name) ==
  LET BrandPenalty(base_score) ==
        IF has_brand_conflict(product_name, target_name)
        THEN FracMul(base_score, Frac(1, 10))
        ELSE base_score
  IN BrandPenalty(ScoreBeforeBrandPenalty(product_name, target_name))

\* a plausible slip: the accessory check of is_relevant_product left out
is_relevant_product_NoAccessoryCheck(product_name, target_name, min_score, allow_accessories) ==
  FracGeq(calculate_relevance_score(product_name, target_name), min_score)

\* is_relevant_product(product_name, target_name, min_score, allow_accessories)
is_relevant_product(product_name, target_name, min_score, allow_accessories) ==
  IF ~allow_accessories /\ is_accessory(product_name)
  THEN FALSE
  ELSE FracGeq(calculate_relevance_score(product_name, target_name), min_score)

(***************************************************************************)
(* EnhancedNaturalLanguageParser                                           *)
(***************************************************************************)
\* number_mapping: the keys and their values
\*   一 二 三 四 五 六 七 八 九 十 百 千 萬 十萬 兩 倆 幾 多
number_mapping ==
  << <<<<"u4e00">>, 1>>, <<<<"u4e8c">>, 2>>, <<<<"u4e09">>, 3>>, <<<<"u56db">>, 4>>,
     <<<<"u4e94">>, 5>>, <<<<"u516d">>, 6>>, <<<<"u4e03">>, 7>>, <<<<"u516b">>, 8>>,
     <<<<"u4e5d">>, 9>>, <<<<"u5341">>, 10>>, <<<<"u767e">>, 100>>, <<<<"u5343">>, 1000>>,
     <<<<"u842c">>, 10000>>, <<<<"u5341","u842c">>, 100000>>, <<<<"u5169">>, 2>>,
     <<<<"u5006">>, 2>>, <<<<"u5e7e">>, 5>>, <<<<"u591a">>, 0>> >>

\* key in self.number_mapping
InNumberMapping(key) == \E i \in 1..Len(number_mapping) : number_mapping[i][1] = key
\* self.number_mapping[key]
NumberOf(key) ==
  number_mapping[CHOOSE i \in 1..Len(number_mapping) : number_mapping[i][1] = key][2]

CharShi  == "u5341"   \* 十
CharBai  == "u767e"   \* 百
CharQian == "u5343"   \* 千
CharWan  == "u842c"   \* 萬

\* the loop of lines 271-276 and 279-284: magnitude words multiply
RECURSIVE AccumulateWithMagnitudes(_, _)
AccumulateWithMagnitudes(acc, s) ==
  IF Len(s) = 0 THEN acc
  ELSE LET c == s[1] IN
       IF InNumberMapping(<<c>>)
       THEN IF c \in {CharShi, CharBai, CharQian}
            THEN AccumulateWithMagnitudes(Max(1, acc) * NumberOf(<<c>>), Tail(s))
            ELSE AccumulateWithMagnitudes(acc * 10 + NumberOf(<<c>>), Tail(s))
       ELSE AccumulateWithMagnitudes(acc, Tail(s))

\* the loop of lines 297-299: every mapped character is appended as a digit
RECURSIVE AccumulateDigits(_, _)
AccumulateDigits(acc, s) ==
  IF Len(s) = 0 THEN acc
  ELSE IF InNumberMapping(<<s[1]>>)
       THEN AccumulateDigits(acc * 10 + NumberOf(<<s[1]>>), Tail(s))
       ELSE AccumulateDigits(acc, Tail(s))

\* the value of result when line 303 is reached
ChineseResult(chinese_num) ==
  LET OrZero(part) == IF Len(part) > 0 THEN part ELSE <<"0">>
      \* lines 264-284: the text has a 萬
      WanParts(parts) ==
        IF Len(parts) = 2
        THEN AccumulateWithMagnitudes(0, parts[1]) * 10000
             + AccumulateWithMagnitudes(0, OrZero(parts[2]))
        ELSE 0
      \* lines 286-299: the text has a 千 and no 萬
      LeftNum(left) ==
        IF left # <<CharShi>>
        THEN (IF InNumberMapping(left) THEN NumberOf(left) ELSE 1)
        ELSE 10
      QianParts(parts) ==
        IF Len(parts) = 2
        THEN LeftNum(IF Len(parts[1]) > 0 THEN parts[1] ELSE <<"u4e00">>) * 1000
             + AccumulateDigits(0, OrZero(parts[2]))
        ELSE 0
      Parts(mark) ==
        IF mark = CharWan THEN WanParts(SplitOn(chinese_num, mark))
        ELSE QianParts(SplitOn(chinese_num, mark))
  IN IF Contains(<<CharWan>>, chinese_num) THEN Parts(CharWan)
     ELSE IF Contains(<<CharQian>>, chinese_num) THEN Parts(CharQian)
     ELSE 0

\* chinese_to_number(chinese_num): None or the number
chinese_to_number(chinese_num) ==
  LET Truthy(result) == IF result > 0 THEN Some(result) ELSE None
  IN IF Len(chinese_num) = 0 THEN None ELSE Truthy(ChineseResult(chinese_num))
\* normalize_product_name: the alias loop from alias number k on
RECURSIVE ApplyAliases(_, _)
ApplyAliases(text, k) ==
  IF k > Len(product_aliases) THEN text
  ELSE IF Contains(product_aliases[k][1], text)
       THEN ApplyAliases(Replace(text, product_aliases[k][1], product_aliases[k][2]), k + 1)
       ELSE ApplyAliases(text, k + 1)

\* normalize_product_name(text)
normalize_product_name(text) == Strip(ApplyAliases(Lower(text), 1))

\* the characters of r'[0-9,]'
IsAmountChar(c) == IsDigit(c) \/ c = ","

\* the characters of r'[一二三四五六七八九十百千萬]'
ChineseNumeralChars ==
  {"u4e00", "u4e8c", "u4e09", "u56db", "u4e94", "u516d", "u4e03", "u516b", "u4e5d",
   "u5341", "u767e", "u5343", "u842c"}

\* the length of the longest prefix of s made of characters satisfying In(_)
RECURSIVE RunLength(_, _)
RunLength(In(_), s) ==
  IF Len(s) > 0 /\ In(s[1]) THEN 1 + RunLength(In, Tail(s)) ELSE 0

\* re.findall(r'[class]+', s): the maximal runs, left to right
RECURSIVE FindRuns(_, _)
FindRuns(In(_), s) ==
  IF Len(s) = 0 THEN <<>>
  ELSE IF In(s[1])
       THEN LET n == RunLength(In, s)
            IN <<SubSeq(s, 1, n)>> \o FindRuns(In, SubSeq(s, n + 1, Len(s)))
       ELSE FindRuns(In, Tail(s))

IsChineseNumeralChar(c) == c \in ChineseNumeralChars

\* re.findall(r'(幾[千萬])', s)
RECURSIVE FindJiMagnitude(_)
FindJiMagnitude(s) ==
  IF Len(s) < 2 THEN <<>>
  ELSE IF s[1] = "u5e7e" /\ s[2] \in {CharQian, CharWan}
       THEN <<SubSeq(s, 1, 2)>> \o FindJiMagnitude(SubSeq(s, 3, Len(s)))
       ELSE FindJiMagnitude(Tail(s))

\* re.findall(r'([0-9]+[千萬])', s)
RECURSIVE FindDigitsMagnitude(_)
FindDigitsMagnitude(s) ==
  IF Len(s) < 2 THEN <<>>
  ELSE IF IsDigit(s[1])
       THEN LET n == RunLength(IsDigit, s) IN
            IF n < Len(s) /\ s[n + 1] \in {CharQian, CharWan}
            THEN <<SubSeq(s, 1, n + 1)>> \o FindDigitsMagnitude(SubSeq(s, n + 2, Len(s)))
            ELSE FindDigitsMagnitude(SubSeq(s, n + 1, Len(s)))
       ELSE FindDigitsMagnitude(Tail(s))

\* the numbers of the Arabic runs: float(num.replace(',', '')), a run of
\* commas alone raises ValueError and is skipped
RECURSIVE ArabicNumbers(_)
ArabicNumbers(runs) ==
  IF Len(runs) = 0 THEN <<>>
  ELSE LET digits == Replace(runs[1], <<",">>, <<>>) IN
       (IF Len(digits) > 0 THEN <<DigitsToNat(digits)>> ELSE <<>>)
         \o ArabicNumbers(Tail(runs))

\* the numbers of the matches of one Chinese pattern: chinese_to_number(match),
\* kept when truthy
RECURSIVE ChineseNumbers(_)
ChineseNumbers(matches) ==
  IF Len(matches) = 0 THEN <<>>
  ELSE chinese_to_number(matches[1]) \o ChineseNumbers(Tail(matches))

\* extract_numbers_from_text(text)
extract_numbers_from_text(text) ==
  ArabicNumbers(FindRuns(IsAmountChar, text))
    \o ChineseNumbers(FindRuns(IsChineseNumeralChar, text)
                        \o FindJiMagnitude(text)
                        \o FindDigitsMagnitude(text))

\* re.sub(r'([0-9,]+元?)', ' ', s)
RECURSIVE SubAmounts(_)
SubAmounts(s) ==
  IF Len(s) = 0 THEN <<>>
  ELSE IF IsAmountChar(s[1])
       THEN LET n == RunLength(IsAmountChar, s)
                m == IF n < Len(s) /\ s[n + 1] = "u5143" THEN n + 1 ELSE n
            IN <<" ">> \o SubAmounts(SubSeq(s, m + 1, Len(s)))
       ELSE <<s[1]>> \o SubAmounts(Tail(s))

\* re.sub(r'^(a|b|...)', '', s)
SubPrefix(alts, s) ==
  IF \E k \in 1..Len(alts) : MatchesAt(alts[k], s, 1)
  THEN LET k == CHOOSE x \in 1..Len(alts) :
                  /\ MatchesAt(alts[x], s, 1)
                  /\ \A y \in 1..(x - 1) : ~MatchesAt(alts[y], s, 1)
       IN SubSeq(s, Len(alts[k]) + 1, Len(s))
  ELSE s

\* re.sub(r'(a|b|...)$', '', s): the leftmost start from which an alternative
\* reaches the end of the string
SubSuffix(alts, s) ==
  LET starts == {i \in 1..Len(s) :
                   \E k \in 1..Len(alts) : Len(alts[k]) = Len(s) - i + 1 /\ MatchesAt(alts[k], s, i)}
  IN IF starts = {} THEN s
     ELSE SubSeq(s, 1, (CHOOSE i \in starts : \A j \in starts : i <= j) - 1)

\* the six cleaning patterns applied in order, then ' '.join(cleaned.split())
CleanedMessage(message) ==
  JoinSpace(Split(
    SubAmounts(
      SubAlt(cleaning_pattern_5, <<" ">>,
        SubAlt(cleaning_pattern_4, <<" ">>,
          SubAlt(cleaning_pattern_3, <<" ">>,
            SubAlt(cleaning_pattern_2, <<" ">>,
              SubAlt(cleaning_pattern_1, <<" ">>, message))))))))

\* the conservative cleaning of lines 411-413
ConservativeCleaned(message) ==
  Strip(SubSuffix(conservative_suffix, Strip(SubPrefix(conservative_prefix, message))))

\* extract_product_name(message): None or the name
extract_product_name(message) ==
  LET Checked(name) == IF Len(name) >= 2 THEN Some(name) ELSE None
      Normalized(cleaned) ==
        Checked(IF Len(cleaned) > 0 THEN normalize_product_name(cleaned) ELSE cleaned)
      OrConservative(first) ==
        Normalized(IF Len(first) < 3 THEN ConservativeCleaned(message) ELSE first)
  IN OrConservative(CleanedMessage(message))

\* contains_intent(message, 'price_query') and contains_intent(message, 'track_product')
contains_price_query(message) == ContainsAny(price_query_keywords, Lower(message))
contains_track_product(message) == ContainsAny(track_product_keywords, Lower(message))

\* an intent: the dict the classifier returns.  product_name and target_price
\* are optional; suggestion tells whether a non-empty suggestion is attached.
Intent(action, product_name, target_price, context_used, suggestion) ==
  [action |-> action, product_name |-> product_name, target_price |-> target_price,
   context_used |-> context_used, suggestion |-> suggestion]

\* fuzzy_intent_matching(message, context)
fuzzy_intent_matching(message) ==
  LET Matched(message_lower, found) ==
        IF found # {} /\ ContainsAny(fuzzy_track_words, message_lower)
        THEN Intent("track_product_need_price",
                    Some(product_keywords[CHOOSE i \in found : \A j \in found : i <= j]),
                    None, FALSE, TRUE)
        ELSE IF found # {} /\ ContainsAny(fuzzy_price_words, message_lower)
        THEN Intent("query_price",
                    Some(product_keywords[CHOOSE i \in found : \A j \in found : i <= j]),
                    None, FALSE, FALSE)
        ELSE Intent("unknown", None, None, FALSE, TRUE)
      Keywords(keywords, message_lower) ==
        Matched(message_lower,
                {i \in 1..Len(keywords) : Contains(keywords[i], message_lower)})
  IN Keywords(product_keywords, Lower(message))

\* a plausible slip: the context shortcut without its check of a tracking
\* keyword
ContextShortcut_NoTrackCheck(message, context) ==
  /\ Len(message) < 10
  /\ Len(context) > 0
  /\ ContainsAny(anaphora_words, message)
  /\ Len(context[1].last_product) > 0

\* the context shortcut of lines 310-320 applies
ContextShortcut(message, context) ==
  /\ Len(message) < 10
  /\ Len(context) > 0
  /\ ContainsAny(anaphora_words, message)
  /\ Len(context[1].last_product) > 0
  /\ ContainsAny(track_product_keywords, message)

\* a plausible slip: the settings keywords are tested before the tracking
\* keywords
extract_intent_with_context_SettingsFirst(raw_message, context) ==
  LET Track(product_name, numbers) ==
        IF Len(numbers) > 0
        THEN Intent("track_product", product_name, Some(NatToStr(numbers[1])),
                    FALSE, FALSE)
        ELSE Intent("track_product_need_price", product_name, None, FALSE, FALSE)
      Classify(message, product_name) ==
        IF ContextShortcut(message, context)
        THEN Intent("track_product_need_price", context[1].last_product, None,
                    TRUE, FALSE)
        ELSE IF contains_price_query(message) /\ Len(product_name) > 0
        THEN Intent("query_price", product_name, None, FALSE, FALSE)
        ELSE IF ContainsAny(settings_keywords, message)
        THEN Intent("user_settings", None, None, FALSE, FALSE)
        ELSE IF contains_track_product(message) /\ Len(product_name) > 0
        THEN Track(product_name, extract_numbers_from_text(message))
        ELSE IF ContainsAny(listing_keywords, message)
        THEN Intent("list_trackers", None, None, FALSE, FALSE)
        ELSE IF ContainsAny(help_keywords, message)
        THEN Intent("show_help", None, None, FALSE, FALSE)
        ELSE fuzzy_intent_matching(message)
      Stripped(message) == Classify(message, extract_product_name(message))
  IN Stripped(Strip(raw_message))

\* extract_intent_with_context(message, context), context None or a context
extract_intent_with_context(raw_message, context) ==
  LET Track(product_name, numbers) ==
        IF Len(numbers) > 0
        THEN Intent("track_product", product_name, Some(NatToStr(numbers[1])),
                    FALSE, FALSE)
        ELSE Intent("track_product_need_price", product_name, None, FALSE, FALSE)
      Classify(message, product_name) ==
        IF ContextShortcut(message, context)
        THEN Intent("track_product_need_price", context[1].last_product, None,
                    TRUE, FALSE)
        ELSE IF contains_price_query(message) /\ Len(product_name) > 0
        THEN Intent("query_price", product_name, None, FALSE, FALSE)
        ELSE IF contains_track_product(message) /\ Len(product_name) > 0
        THEN Track(product_name, extract_numbers_from_text(message))
        ELSE IF ContainsAny(settings_keywords, message)
        THEN Intent("user_settings", None, None, FALSE, FALSE)
        ELSE IF ContainsAny(listing_keywords, message)
        THEN Intent("list_trackers", None, None, FALSE, FALSE)
        ELSE IF ContainsAny(help_keywords, message)
        THEN Intent("show_help", None, None, FALSE, FALSE)
        ELSE fuzzy_intent_matching(message)
      Stripped(message) == Classify(message, extract_product_name(message))
  IN Stripped(Strip(raw_message))
(***************************************************************************)
(* Bounds and the inputs the requests are drawn from                       *)
(***************************************************************************)
MaxClock == 2          \* the handlers that stamp datetime.now() run at most this often
MaxNotifications == 2  \* notifications pushed at most
MaxSweeps == 2         \* periodic checks after the last request at most

Users == {"u1", "u2"}

\* no concurrent requests, no function application
Idle == [op |-> "none"]

Name_iphone    == <<"i","p","h","o","n","e">>
Name_iPhone    == <<"i","P","h","o","n","e">>
Name_iphone_15 == <<"i","p","h","o","n","e"," ","1","5">>
\* iPhone 15 128GB
Item_iPhone_15_128GB == <<"i","P","h","o","n","e"," ","1","5"," ","1","2","8","G","B">>
\* iPhone 15 保護殼
Item_iPhone_15_Case  == <<"i","P","h","o","n","e"," ","1","5"," ","u4fdd","u8b77","u6bbc">>

(***************************************************************************)
(* DatabaseManager                                                         *)
(***************************************************************************)
\* the column defaults of CREATE TABLE user_preferences
DefaultPreferencesRow ==
  [allow_accessories |-> FALSE, min_relevance_score |-> Frac(65, 100),
   preferred_platforms |-> None, notification_settings |-> None]

\* the dict get_user_preferences falls back to
default_prefs ==
  [allow_accessories |-> FALSE, min_relevance_score |-> Frac(65, 100),
   preferred_platforms |-> None, notification_settings |-> None]

\* a PriceTracker object
PriceTracker(user_id, product_name, target_price, created_at) ==
  [user_id |-> user_id, product_name |-> product_name, target_price |-> target_price,
   platforms |-> <<"all">>, created_at |-> created_at, last_checked |-> None,
   last_price |-> None, is_active |-> TRUE, track_mode |-> "below_price",
   tracker_id |-> None]

\* save_tracker: the table after the INSERT (id is the next AUTOINCREMENT value)
save_tracker(table, tracker) ==
  Append(table,
    [id |-> Len(table) + 1, user_id |-> tracker.user_id,
     product_name |-> tracker.product_name, target_price |-> tracker.target_price,
     platforms |-> tracker.platforms, created_at |-> tracker.created_at,
     last_checked |-> tracker.last_checked, last_price |-> tracker.last_price,
     is_active |-> tracker.is_active, track_mode |-> tracker.track_mode])

\* the ids of the rows SELECT ... WHERE user_id = ? AND is_active = TRUE returns
ActiveIds(table, user_id) ==
  {i \in 1..Len(table) : table[i].user_id = user_id /\ table[i].is_active}

\* ORDER BY created_at DESC (rows of equal created_at by descending id)
RECURSIVE OrderByCreatedDesc(_, _)
OrderByCreatedDesc(table, ids) ==
  IF ids = {} THEN <<>>
  ELSE LET top == CHOOSE i \in ids :
                    \A j \in ids :
                      \/ table[i].created_at > table[j].created_at
                      \/ table[i].created_at = table[j].created_at /\ i >= j
       IN <<top>> \o OrderByCreatedDesc(table, ids \ {top})

\* the PriceTracker object load_user_trackers builds from a row
TrackerOfRow(row) ==
  [user_id |-> row.user_id, product_name |-> row.product_name,
   target_price |-> row.target_price, platforms |-> row.platforms,
   created_at |-> row.created_at, last_checked |-> row.last_checked,
   last_price |-> IF Len(row.last_price) > 0 /\ row.last_price[1] # 0
                  THEN row.last_price ELSE None,
   is_active |-> row.is_active, track_mode |-> row.track_mode,
   tracker_id |-> Some(row.id)]

\* row['column'] on a fetched row: the connection of setup_sqlite has
\* row_factory = sqlite3.Row, which allows it; the connection of
\* setup_postgresql is opened without a cursor_factory, its rows are tuples
\* and the subscript raises TypeError
RowsReadByName == database_type = "sqlite"

\* load_user_trackers(user_id); fails: the query raised, [] is returned.  So
\* it is when a row cannot be read by column name: the TypeError of the first
\* row is caught by the same except.
load_user_trackers(table, user_id, fails) ==
  LET Trackers(ids) == [k \in 1..Len(ids) |-> TrackerOfRow(table[ids[k]])]
  IN IF fails \/ ~RowsReadByName THEN <<>>
     ELSE Trackers(OrderByCreatedDesc(table, ActiveIds(table, user_id)))

\* update_tracker_price(tracker_id, current_price): the table afterwards.
\* Only the PostgreSQL branch holds a statement, and it passes '?' placeholders
\* to psycopg2, which raises before anything is sent; the error is logged.
\* On SQLite nothing is executed before the commit.
update_tracker_price(table, tracker_id, current_price, at) == table

\* get_user_preferences(user_id): <<the dict returned, the table afterwards>>
\* readFails: the SELECT raised; writeFails: the INSERT of the defaults raised
\* A stored row that cannot be read by column name raises inside the try,
\* and the except returns the defaults.
get_user_preferences(prefs, user_id, readFails, writeFails) ==
  IF readFails THEN <<default_prefs, prefs>>
  ELSE IF Len(prefs[user_id]) > 0
  THEN <<IF RowsReadByName THEN prefs[user_id][1] ELSE default_prefs, prefs>>
  ELSE <<default_prefs,
         IF writeFails THEN prefs
         ELSE [prefs EXCEPT ![user_id] = Some(DefaultPreferencesRow)]>>

(***************************************************************************)
(* ImprovedPriceSearchAgent                                                *)
(***************************************************************************)
\* what a marketplace source answers: ok with the raw items of its page, or
\* not ok (an exception, a timeout, a status other than 200)
\* an item without a link element (link None) and one with its own link
RawItem(name, price) == [name |-> name, price |-> price, link |-> None]
LinkedItem(name, price, link) == [name |-> name, price |-> price, link |-> Some(link)]
\* search_url of a source
SearchUrl(platform) ==
  IF platform = "FindPrice" THEN "https://www.findprice.com.tw/g/"
  ELSE "https://biggo.com.tw/s/"
Answer(items) == [ok |-> TRUE, items |-> items]
SourceFails == [ok |-> FALSE, items |-> <<>>]

\* filter(lambda p: is_relevant_product(...)) over the products, in order
RECURSIVE KeepRelevant(_, _, _)
KeepRelevant(products, target_name, user_prefs) ==
  LET Scored(p) ==
        [name |-> p.name, price |-> p.price, link |-> p.link, platform |-> p.platform,
         relevance_score |-> calculate_relevance_score(p.name, target_name)]
      Kept(p) ==
        IF is_relevant_product(p.name, target_name,
                               user_prefs.min_relevance_score,
                               user_prefs.allow_accessories)
        THEN <<Scored(p)>>
        ELSE <<>>
  IN IF Len(products) = 0 THEN <<>>
     ELSE Kept(products[1]) \o KeepRelevant(Tail(products), target_name, user_prefs)

\* list.sort(key, reverse): a stable insertion sort; Before(x, y) says that x
\* must come strictly before y
RECURSIVE InsertSorted(_, _, _)
InsertSorted(Before(_, _), sorted, x) ==
  IF Len(sorted) = 0 THEN <<x>>
  ELSE IF Before(x, sorted[1]) THEN <<x>> \o sorted
  ELSE <<sorted[1]>> \o InsertSorted(Before, Tail(sorted), x)
RECURSIVE StableSort(_, _)
StableSort(Before(_, _), s) ==
  IF Len(s) = 0 THEN <<>>
  ELSE InsertSorted(Before, StableSort(Before, SubSeq(s, 1, Len(s) - 1)), s[Len(s)])

HigherRelevance(x, y) ==
  ~FracLeq(x.relevance_score, y.relevance_score)
LowerPrice(x, y) == x.price < y.price

\* a plausible slip: every product is kept
filter_relevant_products_KeepAll(products, target_name, user_prefs) ==
  StableSort(HigherRelevance,
    [k \in 1..Len(products) |->
       [name |-> products[k].name, price |-> products[k].price,
        link |-> products[k].link, platform |-> products[k].platform,
        relevance_score |-> calculate_relevance_score(products[k].name, target_name)]])

\* filter_relevant_products(products, target_name, user_id), user_prefs being
\* the defaults updated with get_user_preferences(user_id)
filter_relevant_products(products, target_name, user_prefs) ==
  StableSort(HigherRelevance, KeepRelevant(products, target_name, user_prefs))

\* search_findprice / search_biggo: <<the filtered items of the source, the
\* preferences table afterwards>>.  The filter runs, and reads the preferences,
\* only when the source answered.
SearchSource(platform, answer, target_name, user_id, prefs, readFails, writeFails) ==
  LET Tagged(items) ==
        [k \in 1..Len(items) |->
           [name |-> items[k].name, price |-> items[k].price,
            link |-> IF Len(items[k].link) > 0 THEN items[k].link[1]
                     ELSE SearchUrl(platform),
            platform |-> platform]]
      Filtered(items, got) ==
        <<filter_relevant_products(Tagged(items), target_name, got[1]), got[2]>>
  IN IF ~answer.ok THEN <<<<>>, prefs>>
     ELSE Filtered(answer.items,
                   get_user_preferences(prefs, user_id, readFails, writeFails))

RECURSIVE SumPrices(_)
SumPrices(items) == IF Len(items) = 0 THEN 0 ELSE items[1].price + SumPrices(Tail(items))

\* _create_empty_result
EmptyResult(product_name) ==
  [product_name |-> product_name, cheapest_item |-> None, min_price |-> 0,
   max_price |-> 0, avg_price |-> Frac(0, 1), total_results |-> 0, all_results |-> <<>>]

\* the faults of one search: the SELECT of the preferences raised for the
\* first / second source, the INSERT of the default preferences raised
NoSearchFaults == [read1 |-> FALSE, read2 |-> FALSE, write |-> FALSE]

\* a plausible slip: the items are not sorted by price
PriceSummary_Unsorted(product_name, all_prices) ==
  LET Result(sorted) ==
        IF Len(sorted) = 0 THEN EmptyResult(product_name)
        ELSE [product_name |-> product_name,
              cheapest_item |-> Some(sorted[1]),
              min_price |-> sorted[1].price,
              max_price |-> CHOOSE p \in {sorted[k].price : k \in 1..Len(sorted)} :
                              \A k \in 1..Len(sorted) : sorted[k].price <= p,
              avg_price |-> Frac(SumPrices(sorted), Len(sorted)),
              total_results |-> Len(sorted),
              all_results |-> SubSeq(sorted, 1, Min(20, Len(sorted)))]
  IN Result(all_prices)

\* lines 957-974: the result built from the items of both sources
PriceSummary(product_name, all_prices) ==
  LET Result(sorted) ==
        IF Len(sorted) = 0 THEN EmptyResult(product_name)
        ELSE [product_name |-> product_name,
              cheapest_item |-> Some(sorted[1]),
              min_price |-> sorted[1].price,
              max_price |-> CHOOSE p \in {sorted[k].price : k \in 1..Len(sorted)} :
                              \A k \in 1..Len(sorted) : sorted[k].price <= p,
              avg_price |-> Frac(SumPrices(sorted), Len(sorted)),
              total_results |-> Len(sorted),
              all_results |-> SubSeq(sorted, 1, Min(20, Len(sorted)))]
  IN Result(StableSort(LowerPrice, all_prices))

\* a plausible slip: the failure of a source ends the search, and the empty
\* result is returned whatever the other source found
search_comprehensive_prices_AbortOnFailure(product_name, user_id, prefs, findprice, biggo, sf) ==
  LET Both(first, second) ==
        <<IF findprice.ok /\ biggo.ok
          THEN PriceSummary(product_name, first[1] \o second[1])
          ELSE EmptyResult(product_name),
          second[2]>>
      AfterFirst(first) ==
        Both(first, SearchSource("BigGo", biggo, product_name, user_id, first[2],
                                 sf.read2, sf.write))
  IN AfterFirst(SearchSource("FindPrice", findprice, product_name, user_id, prefs,
                             sf.read1, sf.write))

\* search_comprehensive_prices(product_name, user_id):
\* <<the result, the preferences table afterwards>>
search_comprehensive_prices(product_name, user_id, prefs, findprice, biggo, sf) ==
  LET Both(first, second) ==
        <<PriceSummary(product_name, first[1] \o second[1]), second[2]>>
      AfterFirst(first) ==
        Both(first, SearchSource("BigGo", biggo, product_name, user_id, first[2],
                                 sf.read2, sf.write))
  IN AfterFirst(SearchSource("FindPrice", findprice, product_name, user_id, prefs,
                             sf.read1, sf.write))
(***************************************************************************)
(* ContextAwarePriceTracker                                                *)
(***************************************************************************)
\* a plausible slip: a text that is no number counts as 0
ParseFloat_ZeroOnError(text) ==
  IF Len(text) > 0 /\ \A i \in 1..Len(text) : IsDigit(text[i])
  THEN Some(DigitsToNat(text))
  ELSE Some(0)

\* float(text): None when it raises ValueError.  The texts of the model are
\* decimal integers, optionally signed, or no number at all.
ParseFloat(text) ==
  IF Len(text) > 0 /\ \A i \in 1..Len(text) : IsDigit(text[i])
  THEN Some(DigitsToNat(text))
  ELSE IF Len(text) > 1 /\ text[1] = "-" /\ \A i \in 2..Len(text) : IsDigit(text[i])
  THEN Some(0 - DigitsToNat(Tail(text)))
  ELSE None

\* a store fault of one request: which statements raise
NoFaults == [load |-> FALSE, update |-> FALSE, save |-> FALSE]

\* a plausible slip: the lookup never finds the tracker
FindExistingNever(list, product_name) == 0

\* the loop of lines 1129-1133: the index of the first tracker of the list
\* whose name equals product_name without regard to case, 0 when none does
FindExisting(list, product_name) ==
  IF \E k \in 1..Len(list) : Lower(list[k].product_name) = Lower(product_name)
  THEN CHOOSE k \in 1..Len(list) :
         /\ Lower(list[k].product_name) = Lower(product_name)
         /\ \A j \in 1..(k - 1) : Lower(list[j].product_name) # Lower(product_name)
  ELSE 0

\* the UPDATE of lines 1145-1157: the table afterwards
UpdateTarget(table, tracker_id, target_price, at, fails) ==
  IF fails \/ Len(tracker_id) = 0 \/ tracker_id[1] \notin 1..Len(table) THEN table
  ELSE [table EXCEPT ![tracker_id[1]].target_price = target_price,
                     ![tracker_id[1]].is_active = TRUE,
                     ![tracker_id[1]].created_at = at]

\* what a handler leaves: the cache, the two tables, and the reply (which of
\* the replies, the old target price it quotes, and what it says of the price)
Outcome(ut, table, prefs, reply, old_price, note) ==
  [ut |-> ut, table |-> table, prefs |-> prefs, reply |-> reply,
   old_price |-> old_price, note |-> note]

\* a plausible slip: the price found must be strictly below the target to
\* count as met
TrackSearch_StrictlyBelow(ut, table, prefs, at, u, list, k, product_name, target_price, reply, old_price, findprice, biggo, sf) ==
  LET Found(current_price, prefs2) ==
        Outcome([ut EXCEPT ![u] = Some([list EXCEPT ![k].last_price = Some(current_price),
                                                    ![k].last_checked = Some(at)])],
                IF Len(list[k].tracker_id) > 0
                THEN update_tracker_price(table, list[k].tracker_id[1], current_price, at)
                ELSE table,
                prefs2, reply, old_price,
                IF current_price < target_price THEN "met" ELSE "gap")
      After(result, prefs2) ==
        IF Len(result.cheapest_item) > 0
        THEN Found(result.min_price, prefs2)
        ELSE Outcome([ut EXCEPT ![u] = Some(list)], table, prefs2, reply, old_price,
                     "started")
      Searched(sr) == After(sr[1], sr[2])
  IN Searched(search_comprehensive_prices(product_name, u, prefs, findprice, biggo, sf))

\* lines 1186-1213: the immediate search after the tracker k of the list was
\* created or updated
TrackSearch(ut, table, prefs, at, u, list, k, product_name, target_price, reply, old_price, findprice, biggo, sf) ==
  LET Found(current_price, prefs2) ==
        Outcome([ut EXCEPT ![u] = Some([list EXCEPT ![k].last_price = Some(current_price),
                                                    ![k].last_checked = Some(at)])],
                IF Len(list[k].tracker_id) > 0
                THEN update_tracker_price(table, list[k].tracker_id[1], current_price, at)
                ELSE table,
                prefs2, reply, old_price,
                IF current_price <= target_price THEN "met" ELSE "gap")
      After(result, prefs2) ==
        IF Len(result.cheapest_item) > 0
        THEN Found(result.min_price, prefs2)
        ELSE Outcome([ut EXCEPT ![u] = Some(list)], table, prefs2, reply, old_price,
                     "started")
      Searched(sr) == After(sr[1], sr[2])
  IN Searched(search_comprehensive_prices(product_name, u, prefs, findprice, biggo, sf))

\* handle_track_product(user_id, intent) at time `at`
handle_track_product(ut, table, prefs, at, u, intent, f, findprice, biggo, sf) ==
  LET \* lines 1141-1159: the tracker k of the list exists
      Update(list0, k, product_name, target_price) ==
        TrackSearch(ut,
                    UpdateTarget(table, list0[k].tracker_id, target_price, at, f.update),
                    prefs, at, u,
                    [list0 EXCEPT ![k].target_price = target_price,
                                  ![k].is_active = TRUE,
                                  ![k].created_at = at],
                    k, product_name, target_price, "updated",
                    Some(list0[k].target_price), findprice, biggo, sf)
      \* lines 1166-1179: a new tracker is saved and appended
      Insert(list0, table1, new_tracker, product_name, target_price) ==
        TrackSearch(ut, table1, prefs, at, u,
                    Append(list0, [new_tracker EXCEPT !.tracker_id = Some(Len(table1))]),
                    Len(list0) + 1, product_name, target_price, "created", None,
                    findprice, biggo, sf)
      Create(list0, new_tracker, product_name, target_price) ==
        Insert(list0, save_tracker(table, new_tracker), new_tracker, product_name,
               target_price)
      Looked(list0, k, product_name, target_price) ==
        IF k > 0 THEN Update(list0, k, product_name, target_price)
        ELSE IF f.save
        THEN Outcome([ut EXCEPT ![u] = Some(list0)], table, prefs, "error", None, "none")
        ELSE Create(list0, PriceTracker(u, product_name, target_price, at),
                    product_name, target_price)
      Loaded(list0, product_name, target_price) ==
        Looked(list0, FindExisting(list0, product_name), product_name, target_price)
      Valid(product_name, target_price) ==
        Loaded(IF Len(ut[u]) = 0 THEN load_user_trackers(table, u, f.load)
               ELSE ut[u][1],
               product_name, target_price)
  IN IF intent.action = "track_product_need_price"
     THEN Outcome(ut, table, prefs, "need_price", None, "none")
     ELSE IF Len(intent.product_name) = 0 \/ Len(intent.target_price) = 0
     THEN Outcome(ut, table, prefs, "error", None, "none")          \* KeyError
     ELSE IF Len(ParseFloat(intent.target_price[1])) = 0
     THEN Outcome(ut, table, prefs, "invalid_price", None, "none")  \* ValueError
     ELSE Valid(intent.product_name[1], ParseFloat(intent.target_price[1])[1])

\* handle_list_trackers(user_id): the cache is replaced by what the store returns
handle_list_trackers(ut, table, prefs, u, loadFails) ==
  LET Listed(list) ==
        Outcome([ut EXCEPT ![u] = Some(list)], table, prefs,
                IF Len(list) = 0 THEN "no_trackers" ELSE "listed", None, "none")
  IN Listed(load_user_trackers(table, u, loadFails))

\* load_all_trackers: the cache a new instance starts with.  queryFails: the
\* SELECT DISTINCT raised and nothing is loaded; loadFails: the users whose
\* load_user_trackers raised
load_all_trackers(table, queryFails, loadFails) ==
  [u \in Users |->
     IF ~queryFails /\ ActiveIds(table, u) # {}
     THEN Some(load_user_trackers(table, u, u \in loadFails))
     ELSE None]

\* get_user_context(user_id): the context, created when the user has none
NewContext == [last_product |-> None, last_action |-> None, last_price |-> None]
get_user_context(contexts, u) ==
  IF Len(contexts[u]) = 0 THEN [contexts EXCEPT ![u] = Some(NewContext)] ELSE contexts

\* update_context(user_id, action, product, price): product and price are
\* optional and replace the stored ones only when given
update_context(contexts, u, action, product, price) ==
  LET c0 == get_user_context(contexts, u)[u][1]
      c1 == [c0 EXCEPT !.last_action = Some(action)]
      c2 == IF Len(product) > 0 /\ Len(product[1]) > 0
            THEN [c1 EXCEPT !.last_product = product] ELSE c1
      c3 == IF Len(price) > 0 /\ price[1] # 0
            THEN [c2 EXCEPT !.last_price = price] ELSE c2
  IN [contexts EXCEPT ![u] = Some(c3)]

\* the upsert of handle_user_settings: INSERT OR REPLACE writes a new row, the
\* columns not named take their defaults; ON CONFLICT DO UPDATE keeps them
UpsertAllowAccessories(prefs, db, u, value, fails) ==
  IF fails THEN prefs
  ELSE IF db = "postgresql" /\ Len(prefs[u]) > 0
  THEN [prefs EXCEPT ![u] = Some([prefs[u][1] EXCEPT !.allow_accessories = value])]
  ELSE [prefs EXCEPT ![u] = Some([DefaultPreferencesRow EXCEPT !.allow_accessories = value])]

\* 允許配件 | 包含配件
allow_accessory_commands ==
  << <<"u5141","u8a31","u914d","u4ef6">>, <<"u5305","u542b","u914d","u4ef6">> >>
\* 不要配件 | 過濾配件 | 排除配件
filter_accessory_commands ==
  << <<"u4e0d","u8981","u914d","u4ef6">>, <<"u904e","u6ffe","u914d","u4ef6">>,
     <<"u6392","u9664","u914d","u4ef6">> >>

\* handle_user_settings(user_id, message): <<the preferences table afterwards,
\* the dict shown as the current setting>>
handle_user_settings(prefs, db, u, message, upsertFails, readFails, writeFails) ==
  LET prefs1 == IF ContainsAny(allow_accessory_commands, message)
                THEN UpsertAllowAccessories(prefs, db, u, TRUE, upsertFails)
                ELSE IF ContainsAny(filter_accessory_commands, message)
                THEN UpsertAllowAccessories(prefs, db, u, FALSE, upsertFails)
                ELSE prefs
      got == get_user_preferences(prefs1, u, readFails, writeFails)
  IN <<got[2], got[1]>>

(***************************************************************************)
(* The requests                                                            *)
(***************************************************************************)
\* ContextAwarePriceTracker.__init__: a new process, or a new instance for a
\* request; the store is kept
NewInstance(queryFails, loadFails) ==
  /\ user_trackers' = load_all_trackers(price_trackers, queryFails, loadFails)
  /\ user_contexts' = [u \in Users |-> None]
  /\ last' = [op |-> "new"]
  /\ UNCHANGED <<price_trackers, user_preferences, database_type, now,
                 notifications, req, fn>>

HandleTrackProduct(u, intent, f, findprice, biggo, sf) ==
  /\ now < MaxClock
  /\ now' = now + 1
  /\ \E out \in {handle_track_product(user_trackers, price_trackers, user_preferences,
                                      now + 1, u, intent, f, findprice, biggo, sf)} :
        /\ user_trackers' = out.ut
        /\ price_trackers' = out.table
        /\ user_preferences' = out.prefs
        /\ last' = [op |-> "track", user |-> u, intent |-> intent,
                    faulty |-> f # NoFaults \/ sf # NoSearchFaults, faults |-> f,
                    findprice |-> findprice, biggo |-> biggo, sf |-> sf,
                    reply |-> out.reply, old_price |-> out.old_price,
                    note |-> out.note]
  /\ UNCHANGED <<database_type, user_contexts, notifications, req, fn>>

HandleListTrackers(u, loadFails) ==
  /\ \E out \in {handle_list_trackers(user_trackers, price_trackers, user_preferences,
                                      u, loadFails)} :
        /\ user_trackers' = out.ut
        /\ last' = [op |-> "list", user |-> u, faulty |-> loadFails,
                    reply |-> out.reply]
  /\ UNCHANGED <<price_trackers, user_preferences, database_type, user_contexts, now,
                 notifications, req, fn>>

\* handle_price_query(product_name, user_id)
HandlePriceQuery(u, product_name, findprice, biggo, sf) ==
  /\ \E sr \in {search_comprehensive_prices(product_name, u, user_preferences,
                                            findprice, biggo, sf)} :
        /\ user_preferences' = sr[2]
        /\ last' = [op |-> "query", user |-> u, product_name |-> product_name,
                    stored_allow |-> IF Len(user_preferences[u]) > 0
                                     THEN user_preferences[u][1].allow_accessories
                                     ELSE FALSE,
                    findprice |-> findprice, biggo |-> biggo, sf |-> sf,
                    result |-> sr[1]]
  /\ UNCHANGED <<price_trackers, database_type, user_trackers, user_contexts, now,
                 notifications, req, fn>>

HandleUserSettings(u, message, upsertFails, readFails, writeFails) ==
  /\ \E out \in {handle_user_settings(user_preferences, database_type, u, message,
                                      upsertFails, readFails, writeFails)} :
        /\ user_preferences' = out[1]
        /\ last' = [op |-> "settings", user |-> u, message |-> message,
                    upsertFails |-> upsertFails, shown |-> out[2]]
  /\ UNCHANGED <<price_trackers, database_type, user_trackers, user_contexts, now,
                 notifications, req, fn>>

(***************************************************************************)
(* The periodic re-check and the dispatch of a message                     *)
(* (sections 4.5 and 2 of the specification: the source stops before the   *)
(* methods that hold them)                                                 *)
(***************************************************************************)
\* a plausible slip: a notification whenever the price is at or below the
\* target, whether or not it was already there
ShouldNotify_NoTransition(last_price, target_price, current_price) ==
  current_price <= target_price

\* "if the new cheapest price <= target_price and (last_price was above
\* target, i.e., a transition), push a notification"
ShouldNotify(last_price, target_price, current_price) ==
  /\ current_price <= target_price
  /\ Len(last_price) > 0
  /\ last_price[1] > target_price

\* The periodic re-check of the tracker k of user u: search again, notify on a
\* transition, and record the price found and the time of the check.
PeriodicCheck(u, k, findprice, biggo, sf) ==
  /\ now < MaxClock + MaxSweeps
  /\ Len(user_trackers[u]) > 0
  /\ k \in 1..Len(user_trackers[u][1])
  /\ user_trackers[u][1][k].is_active
  /\ now' = now + 1
  /\ \E tracker \in {user_trackers[u][1][k]} :
     \E sr \in {search_comprehensive_prices(tracker.product_name, u, user_preferences,
                                            findprice, biggo, sf)} :
       LET found == Len(sr[1].cheapest_item) > 0
           price == sr[1].min_price
           crossing == found /\ ShouldNotify(tracker.last_price, tracker.target_price,
                                             price)
       IN /\ crossing => Len(notifications) < MaxNotifications
          /\ notifications' =
               IF crossing
               THEN Append(notifications,
                           [user |-> u, product_name |-> tracker.product_name,
                            price |-> price])
               ELSE notifications
          /\ user_trackers' =
               IF found
               THEN [user_trackers EXCEPT
                       ![u] = Some([user_trackers[u][1] EXCEPT
                                      ![k].last_price = Some(price),
                                      ![k].last_checked = Some(now + 1)])]
               ELSE user_trackers
          /\ price_trackers' =
               IF found /\ Len(tracker.tracker_id) > 0
               THEN update_tracker_price(price_trackers, tracker.tracker_id[1], price,
                                         now + 1)
               ELSE price_trackers
          /\ user_preferences' = sr[2]
          /\ last' = [op |-> "check", user |-> u, index |-> k, before |-> tracker,
                      found |-> IF found THEN Some(price) ELSE None]
  /\ UNCHANGED <<database_type, user_contexts, req, fn>>

\* process_message(user_id, message) on an instance whose tracker cache is ut
\* and whose contexts are instance_contexts: classify with the user's context
\* and hand the intent to its handler
ProcessMessageOn(ut, instance_contexts, u, message, f, findprice, biggo, sf) ==
  /\ now < MaxClock
  /\ now' = now + 1
  /\ \E contexts \in {get_user_context(instance_contexts, u)} :
     \E intent \in {extract_intent_with_context(message, contexts[u])} :
       IF intent.action \in {"track_product", "track_product_need_price"}
       THEN \E out \in {handle_track_product(ut, price_trackers,
                          user_preferences, now + 1, u, intent, f, findprice, biggo, sf)} :
              /\ user_trackers' = out.ut
              /\ price_trackers' = out.table
              /\ user_preferences' = out.prefs
              /\ user_contexts' = update_context(contexts, u, intent.action,
                                                 intent.product_name, None)
              /\ last' = [op |-> "message", user |-> u, message |-> message,
                          intent |-> intent, reply |-> out.reply, note |-> out.note]
       ELSE IF intent.action = "query_price"
       THEN \E sr \in {search_comprehensive_prices(intent.product_name[1], u,
                         user_preferences, findprice, biggo, sf)} :
              /\ user_preferences' = sr[2]
              /\ user_contexts' = update_context(contexts, u, intent.action,
                                    intent.product_name,
                                    IF Len(sr[1].cheapest_item) > 0
                                    THEN Some(sr[1].min_price) ELSE None)
              /\ last' = [op |-> "message", user |-> u, message |-> message,
                          intent |-> intent,
                          reply |-> IF Len(sr[1].cheapest_item) > 0
                                    THEN "found" ELSE "not_found",
                          note |-> "none"]
              /\ user_trackers' = ut
              /\ UNCHANGED price_trackers
       ELSE IF intent.action = "list_trackers"
       THEN \E out \in {handle_list_trackers(ut, price_trackers,
                                             user_preferences, u, f.load)} :
              /\ user_trackers' = out.ut
              /\ user_contexts' = update_context(contexts, u, intent.action, None, None)
              /\ last' = [op |-> "message", user |-> u, message |-> message,
                          intent |-> intent, reply |-> out.reply, note |-> "none"]
              /\ UNCHANGED <<price_trackers, user_preferences>>
       ELSE IF intent.action = "user_settings"
       THEN \E out \in {handle_user_settings(user_preferences, database_type, u, message,
                                             f.update, sf.read1, sf.write)} :
              /\ user_preferences' = out[1]
              /\ user_contexts' = update_context(contexts, u, intent.action, None, None)
              /\ last' = [op |-> "message", user |-> u, message |-> message,
                          intent |-> intent, reply |-> "settings", note |-> "none"]
              /\ user_trackers' = ut
              /\ UNCHANGED price_trackers
       ELSE /\ user_contexts' = contexts
            /\ last' = [op |-> "message", user |-> u, message |-> message,
                        intent |-> intent,
                        reply |-> IF intent.action = "show_help" THEN "help"
                                  ELSE "clarify",
                        note |-> "none"]
            /\ user_trackers' = ut
            /\ UNCHANGED <<price_trackers, user_preferences>>
  /\ UNCHANGED <<database_type, notifications, req, fn>>

\* process_message(user_id, message) on the instance of the process
ProcessMessage(u, message, f, findprice, biggo, sf) ==
  ProcessMessageOn(user_trackers, user_contexts, u, message, f, findprice, biggo, sf)

\* invoke_price_tracker_agent(user_id, message): a tracker instance is built
\* for the request (its cache loaded from the store, its contexts empty),
\* process_message runs on it, and the instance is dropped with the reply
InvokePriceTrackerAgent(u, message, f, findprice, biggo, sf) ==
  \E ut \in {load_all_trackers(price_trackers, FALSE, {})} :
    ProcessMessageOn(ut, [v \in Users |-> None], u, message, f, findprice, biggo, sf)
(***************************************************************************)
(* The dispatcher of src/main.py: which agent a message is for             *)
(***************************************************************************)
\* analyze_user_intent: non_shopping_indicators
\*   天氣 | 新聞 | 股票 | 股市 | 政治 | 選舉 | 運動 | 比賽 | 遊戲攻略 | 遊戲 | 電玩 | 料理 | 食譜 | 做菜 | 烹飪 | 健康 | 醫療 | 看病 | 醫生 | 藥 | 症狀 | 疾病 | 教育 | 學習 | 考試 | 作業 | 功課 | 學校 | 程式 | 編程 | 代碼 | coding | python | java | 數學 | 物理 | 化學 | 生物 | 科學 | 歷史 | 地理 | 音樂 | 歌曲 | 歌詞 | 電影 | 影片 | 電視 | 追劇 | 書籍 | 小說 | 詩詞 | 文學 | 作文 | 寫作 | 笑話 | 故事 | 聊天 | 閒聊 | 你是誰 | 你好嗎 | 早安 | 晚安 | 謝謝 | 再見 | 拜拜
non_shopping_indicators ==
  << <<"u5929","u6c23">>, <<"u65b0","u805e">>, <<"u80a1","u7968">>, <<"u80a1","u5e02">>,
     <<"u653f","u6cbb">>, <<"u9078","u8209">>, <<"u904b","u52d5">>, <<"u6bd4","u8cfd">>,
     <<"u904a","u6232","u653b","u7565">>, <<"u904a","u6232">>, <<"u96fb","u73a9">>,
     <<"u6599","u7406">>, <<"u98df","u8b5c">>, <<"u505a","u83dc">>, <<"u70f9","u98ea">>,
     <<"u5065","u5eb7">>, <<"u91ab","u7642">>, <<"u770b","u75c5">>, <<"u91ab","u751f">>,
     <<"u85e5">>, <<"u75c7","u72c0">>, <<"u75be","u75c5">>, <<"u6559","u80b2">>,
     <<"u5b78","u7fd2">>, <<"u8003","u8a66">>, <<"u4f5c","u696d">>, <<"u529f","u8ab2">>,
     <<"u5b78","u6821">>, <<"u7a0b","u5f0f">>, <<"u7de8","u7a0b">>, <<"u4ee3","u78bc">>,
     <<"c","o","d","i","n","g">>, <<"p","y","t","h","o","n">>, <<"j","a","v","a">>,
     <<"u6578","u5b78">>, <<"u7269","u7406">>, <<"u5316","u5b78">>, <<"u751f","u7269">>,
     <<"u79d1","u5b78">>, <<"u6b77","u53f2">>, <<"u5730","u7406">>, <<"u97f3","u6a02">>,
     <<"u6b4c","u66f2">>, <<"u6b4c","u8a5e">>, <<"u96fb","u5f71">>, <<"u5f71","u7247">>,
     <<"u96fb","u8996">>, <<"u8ffd","u5287">>, <<"u66f8","u7c4d">>, <<"u5c0f","u8aaa">>,
     <<"u8a69","u8a5e">>, <<"u6587","u5b78">>, <<"u4f5c","u6587">>, <<"u5beb","u4f5c">>,
     <<"u7b11","u8a71">>, <<"u6545","u4e8b">>, <<"u804a","u5929">>, <<"u9592","u804a">>,
     <<"u4f60","u662f","u8ab0">>, <<"u4f60","u597d","u55ce">>, <<"u65e9","u5b89">>,
     <<"u665a","u5b89">>, <<"u8b1d","u8b1d">>, <<"u518d","u898b">>, <<"u62dc","u62dc">> >>

\* analyze_user_intent: review_keywords
\*   評價 | 評論 | 好不好 | 好用 | 推薦 | 建議 | 分析 | 優點 | 缺點 | 心得 | 開箱 | 值得買 | 品質 | 耐用 | 商品資訊 | 產品介紹 | 規格 | 特色 | 功能 | 如何 | 怎麼樣 | 怎樣 | 好嗎 | 評測 | 測評 | 使用心得 | 用戶評價 | 買家評價 | 真實評價 | 網友評價 | 值不值得 | 適合 | 好壞 | 優劣 | 比較 | 差異 | 選擇
review_keywords ==
  << <<"u8a55","u50f9">>, <<"u8a55","u8ad6">>, <<"u597d","u4e0d","u597d">>, <<"u597d","u7528">>,
     <<"u63a8","u85a6">>, <<"u5efa","u8b70">>, <<"u5206","u6790">>, <<"u512a","u9ede">>,
     <<"u7f3a","u9ede">>, <<"u5fc3","u5f97">>, <<"u958b","u7bb1">>, <<"u503c","u5f97","u8cb7">>,
     <<"u54c1","u8cea">>, <<"u8010","u7528">>, <<"u5546","u54c1","u8cc7","u8a0a">>,
     <<"u7522","u54c1","u4ecb","u7d39">>, <<"u898f","u683c">>, <<"u7279","u8272">>,
     <<"u529f","u80fd">>, <<"u5982","u4f55">>, <<"u600e","u9ebc","u6a23">>, <<"u600e","u6a23">>,
     <<"u597d","u55ce">>, <<"u8a55","u6e2c">>, <<"u6e2c","u8a55">>,
     <<"u4f7f","u7528","u5fc3","u5f97">>, <<"u7528","u6236","u8a55","u50f9">>,
     <<"u8cb7","u5bb6","u8a55","u50f9">>, <<"u771f","u5be6","u8a55","u50f9">>,
     <<"u7db2","u53cb","u8a55","u50f9">>, <<"u503c","u4e0d","u503c","u5f97">>,
     <<"u9069","u5408">>, <<"u597d","u58de">>, <<"u512a","u52a3">>, <<"u6bd4","u8f03">>,
     <<"u5dee","u7570">>, <<"u9078","u64c7">> >>

\* analyze_user_intent: price_keywords
\*   價格 | 多少錢 | 比價 | 追蹤 | 監控 | 通知 | 降價 | 便宜 | 特價 | 折扣 | 優惠 | 目標價 | 低於 | 售價 | 報價 | 賣多少 | 現在什麼價 | 幾元 | 幾塊 | nt$ | 成本 | 定價 | 市價 | 行情 | 價位 | 預算 | 貴不貴 | 划算 | cp值 | 性價比
price_keywords ==
  << <<"u50f9","u683c">>, <<"u591a","u5c11","u9322">>, <<"u6bd4","u50f9">>, <<"u8ffd","u8e64">>,
     <<"u76e3","u63a7">>, <<"u901a","u77e5">>, <<"u964d","u50f9">>, <<"u4fbf","u5b9c">>,
     <<"u7279","u50f9">>, <<"u6298","u6263">>, <<"u512a","u60e0">>, <<"u76ee","u6a19","u50f9">>,
     <<"u4f4e","u65bc">>, <<"u552e","u50f9">>, <<"u5831","u50f9">>, <<"u8ce3","u591a","u5c11">>,
     <<"u73fe","u5728","u4ec0","u9ebc","u50f9">>, <<"u5e7e","u5143">>, <<"u5e7e","u584a">>,
     <<"n","t","$">>, <<"u6210","u672c">>, <<"u5b9a","u50f9">>, <<"u5e02","u50f9">>,
     <<"u884c","u60c5">>, <<"u50f9","u4f4d">>, <<"u9810","u7b97">>, <<"u8cb4","u4e0d","u8cb4">>,
     <<"u5212","u7b97">>, <<"c","p","u503c">>, <<"u6027","u50f9","u6bd4">> >>

\* analyze_user_intent: product_indicators
\*   iphone | samsung | sony | apple | nike | adidas | asus | msi | acer | lenovo | hp | dell | lg | xiaomi | 小米 | oppo | vivo | huawei | 華為 | ps5 | ps4 | xbox | switch | nintendo | macbook | ipad | airpods | apple watch | 手機 | 電腦 | 筆電 | 平板 | 耳機 | 滑鼠 | 鍵盤 | 螢幕 | 顯卡 | 主機 | 相機 | 手錶 | 電視 | razer | 雷蛇 | viper | logitech | 羅技 | steelseries
product_indicators ==
  << <<"i","p","h","o","n","e">>, <<"s","a","m","s","u","n","g">>, <<"s","o","n","y">>,
     <<"a","p","p","l","e">>, <<"n","i","k","e">>, <<"a","d","i","d","a","s">>,
     <<"a","s","u","s">>, <<"m","s","i">>, <<"a","c","e","r">>, <<"l","e","n","o","v","o">>,
     <<"h","p">>, <<"d","e","l","l">>, <<"l","g">>, <<"x","i","a","o","m","i">>,
     <<"u5c0f","u7c73">>, <<"o","p","p","o">>, <<"v","i","v","o">>, <<"h","u","a","w","e","i">>,
     <<"u83ef","u70ba">>, <<"p","s","5">>, <<"p","s","4">>, <<"x","b","o","x">>,
     <<"s","w","i","t","c","h">>, <<"n","i","n","t","e","n","d","o">>,
     <<"m","a","c","b","o","o","k">>, <<"i","p","a","d">>, <<"a","i","r","p","o","d","s">>,
     <<"a","p","p","l","e"," ","w","a","t","c","h">>, <<"u624b","u6a5f">>, <<"u96fb","u8166">>,
     <<"u7b46","u96fb">>, <<"u5e73","u677f">>, <<"u8033","u6a5f">>, <<"u6ed1","u9f20">>,
     <<"u9375","u76e4">>, <<"u87a2","u5e55">>, <<"u986f","u5361">>, <<"u4e3b","u6a5f">>,
     <<"u76f8","u6a5f">>, <<"u624b","u9336">>, <<"u96fb","u8996">>, <<"r","a","z","e","r">>,
     <<"u96f7","u86c7">>, <<"v","i","p","e","r">>, <<"l","o","g","i","t","e","c","h">>,
     <<"u7f85","u6280">>, <<"s","t","e","e","l","s","e","r","i","e","s">> >>

\* sum(2 if keyword in message_lower else 0 for keyword in keywords)
RECURSIVE KeywordScore(_, _)
KeywordScore(keywords, message_lower) ==
  IF Len(keywords) = 0 THEN 0
  ELSE (IF Contains(keywords[1], message_lower) THEN 2 ELSE 0)
       + KeywordScore(Tail(keywords), message_lower)

\* any(re.search(pattern, message) for pattern in review_patterns).  Every
\* pattern is a fixed text with optional parts around it; (.+) asks for at
\* least one character at its place.
review_patterns_match(message) ==
  LET n == Len(message)
      \* the text kw stands at position i
      At(kw, i) == MatchesAt(kw, message, i)
      \* one of the texts kws stands at position i
      OneAt(kws, i) == \E k \in 1..Len(kws) : MatchesAt(kws[k], message, i)
      \* (.+) followed by one of the texts
      Preceded(kws) == \E i \in 2..n : OneAt(kws, i)
  IN \* (.+)(?:的)?評[價論](?:如何|怎[麼樣])?
     \/ Preceded(<<<<"u8a55","u50f9">>, <<"u8a55","u8ad6">>>>)
     \* (.+)好不好[用買]?
     \/ Preceded(<<<<"u597d","u4e0d","u597d">>>>)
     \* (.+)值[不得]?[得的]買[嗎?]?
     \/ Preceded(<<<<"u503c","u5f97","u8cb7">>, <<"u503c","u7684","u8cb7">>, <<"u503c","u4e0d","u5f97","u8cb7">>, <<"u503c","u4e0d","u7684","u8cb7">>, <<"u503c","u5f97","u5f97","u8cb7">>, <<"u503c","u5f97","u7684","u8cb7">>>>)
     \* (.+)推薦[嗎?]?
     \/ Preceded(<<<<"u63a8","u85a6">>>>)
     \* (.+)怎[麼樣]?[樣]
     \/ Preceded(<<<<"u600e","u6a23">>, <<"u600e","u9ebc","u6a23">>, <<"u600e","u6a23","u6a23">>>>)
     \* 想?[買購](.+)(?:好[嗎?]|可以[嗎?])?
     \/ \E i \in 1..(n - 1) : OneAt(<<<<"u8cb7">>, <<"u8cfc">>>>, i)
     \* (.+)(?:跟|和|與)(.+)(?:哪個|那個)好
     \/ \E i \in 2..n : /\ OneAt(<<<<"u8ddf">>, <<"u548c">>, <<"u8207">>>>, i)
                        /\ \E j \in (i + 2)..n : OneAt(<<<<"u54ea","u500b","u597d">>, <<"u90a3","u500b","u597d">>>>, j)
     \* 請?(?:分析|介紹|說明)(?:一下)?(.+)
     \/ \E i \in 1..(n - 2) : OneAt(<<<<"u5206","u6790">>, <<"u4ecb","u7d39">>, <<"u8aaa","u660e">>>>, i)
     \* (.+)(?:有什麼|有哪些)(?:優點|缺點|特[色點])
     \/ \E i \in 2..n : /\ OneAt(<<<<"u6709","u4ec0","u9ebc">>, <<"u6709","u54ea","u4e9b">>>>, i)
                        /\ OneAt(<<<<"u512a","u9ede">>, <<"u7f3a","u9ede">>, <<"u7279","u8272">>, <<"u7279","u9ede">>>>, i + 3)
     \* (.+)適合(?:我|什麼人)?[嗎?]?
     \/ Preceded(<<<<"u9069","u5408">>>>)

\* any(re.search(pattern, message) for pattern in price_patterns)
price_patterns_match(message) ==
  LET n == Len(message)
      OneAt(kws, i) == \E k \in 1..Len(kws) : MatchesAt(kws[k], message, i)
      Preceded(kws) == \E i \in 2..n : OneAt(kws, i)
  IN \* (.+)(?:的)?價[格錢](?:是)?(?:多少|幾元)?
     \/ Preceded(<<<<"u50f9","u683c">>, <<"u50f9","u9322">>>>)
     \* (.+)(?:要)?多少錢
     \/ Preceded(<<<<"u591a","u5c11","u9322">>>>)
     \* (.+)賣(?:多少|幾元)
     \/ Preceded(<<<<"u8ce3","u591a","u5c11">>, <<"u8ce3","u5e7e","u5143">>>>)
     \* 查(?:詢)?(.+)(?:的)?價[格錢]
     \/ \E i \in 1..n : /\ OneAt(<<<<"u67e5">>>>, i)
                        /\ \E j \in (i + 2)..n : OneAt(<<<<"u50f9","u683c">>, <<"u50f9","u9322">>>>, j)
     \* 比價(.+)
     \/ \E i \in 1..(n - 2) : OneAt(<<<<"u6bd4","u50f9">>>>, i)
     \* (.+)現在(?:什麼)?價[格位]
     \/ Preceded(<<<<"u73fe","u5728","u50f9","u683c">>, <<"u73fe","u5728","u50f9","u4f4d">>, <<"u73fe","u5728","u4ec0","u9ebc","u50f9","u683c">>, <<"u73fe","u5728","u4ec0","u9ebc","u50f9","u4f4d">>>>)
     \* 追蹤(.+)(?:的)?(?:價格|降價)
     \/ \E i \in 1..n : /\ OneAt(<<<<"u8ffd","u8e64">>>>, i)
                        /\ \E j \in (i + 3)..n : OneAt(<<<<"u50f9","u683c">>, <<"u964d","u50f9">>>>, j)
     \* (.+)(?:降價|特價|優惠)(?:了[嗎?]|通知)
     \/ \E i \in 2..n : /\ OneAt(<<<<"u964d","u50f9">>, <<"u7279","u50f9">>, <<"u512a","u60e0">>>>, i)
                        /\ OneAt(<<<<"u4e86","u55ce">>, <<"u4e86","?">>, <<"u901a","u77e5">>>>, i + 2)
     \* (.+)(?:在)?哪[裡裏](?:買)?(?:比較)?便宜
     \/ \E i \in 2..n : /\ OneAt(<<<<"u54ea","u88e1">>, <<"u54ea","u88cf">>>>, i)
                        /\ OneAt(<<<<"u4fbf","u5b9c">>, <<"u8cb7","u4fbf","u5b9c">>, <<"u6bd4","u8f03","u4fbf","u5b9c">>, <<"u8cb7","u6bd4","u8f03","u4fbf","u5b9c">>>>, i + 2)
     \* (.+)(?:貴不貴|划算[嗎?])
     \/ Preceded(<<<<"u8cb4","u4e0d","u8cb4">>, <<"u5212","u7b97","u55ce">>, <<"u5212","u7b97","?">>>>)


\* an element of intents
IntentEntry(type, score, agent, inferred) ==
  [type |-> type, score |-> score, agent |-> agent, inferred |-> inferred]

\* a plausible slip: of several intents of maximal score the last one is taken
analyze_user_intent_LastMaximal(message) ==
  LET Primary(intents) ==
        intents[CHOOSE k \in 1..Len(intents) :
                  /\ \A j \in 1..Len(intents) : intents[j].score <= intents[k].score
                  /\ \A j \in (k + 1)..Len(intents) : intents[j].score < intents[k].score]
      Result(intents) ==
        [message |-> message, intents |-> intents,
         primary_intent |-> IF Len(intents) > 0 THEN Some(Primary(intents)) ELSE None,
         is_shopping_related |-> Len(intents) > 0]
      Inferred(message_lower, intents) ==
        Result(IF Len(intents) = 0 /\ ContainsAny(product_indicators, message_lower)
               THEN <<IntentEntry("review", 5, "ProductReviewAgent", TRUE)>>
               ELSE intents)
      Scored(message_lower, review_score, price_score) ==
        Inferred(message_lower,
          (IF review_score > 0
           THEN <<IntentEntry("review", review_score, "ProductReviewAgent", FALSE)>>
           ELSE <<>>)
          \o (IF price_score > 0
              THEN <<IntentEntry("price", price_score, "PriceTrackerAgent", FALSE)>>
              ELSE <<>>))
      Checked(message_lower) ==
        IF ContainsAny(non_shopping_indicators, message_lower)
        THEN [message |-> message, intents |-> <<>>, primary_intent |-> None,
              is_shopping_related |-> FALSE]
        ELSE Scored(message_lower,
                    IF review_patterns_match(message) THEN 10
                    ELSE KeywordScore(review_keywords, message_lower),
                    IF price_patterns_match(message) THEN 10
                    ELSE KeywordScore(price_keywords, message_lower))
  IN Checked(Lower(message))

\* analyze_user_intent(message)
analyze_user_intent(message) ==
  LET \* max(intents, key=score): the first of the intents of maximal score
      Primary(intents) ==
        intents[CHOOSE k \in 1..Len(intents) :
                  /\ \A j \in 1..Len(intents) : intents[j].score <= intents[k].score
                  /\ \A j \in 1..(k - 1) : intents[j].score < intents[k].score]
      Result(intents) ==
        [message |-> message, intents |-> intents,
         primary_intent |-> IF Len(intents) > 0 THEN Some(Primary(intents)) ELSE None,
         is_shopping_related |-> Len(intents) > 0]
      \* lines 197-222: no intent yet, but a brand or product word
      Inferred(message_lower, intents) ==
        Result(IF Len(intents) = 0 /\ ContainsAny(product_indicators, message_lower)
               THEN <<IntentEntry("review", 5, "ProductReviewAgent", TRUE)>>
               ELSE intents)
      \* lines 180-195
      Scored(message_lower, review_score, price_score) ==
        Inferred(message_lower,
          (IF review_score > 0
           THEN <<IntentEntry("review", review_score, "ProductReviewAgent", FALSE)>>
           ELSE <<>>)
          \o (IF price_score > 0
              THEN <<IntentEntry("price", price_score, "PriceTrackerAgent", FALSE)>>
              ELSE <<>>))
      \* lines 103-116 and 160-177
      Checked(message_lower) ==
        IF ContainsAny(non_shopping_indicators, message_lower)
        THEN [message |-> message, intents |-> <<>>, primary_intent |-> None,
              is_shopping_related |-> FALSE]
        ELSE Scored(message_lower,
                    IF review_patterns_match(message) THEN 10
                    ELSE KeywordScore(review_keywords, message_lower),
                    IF price_patterns_match(message) THEN 10
                    ELSE KeywordScore(price_keywords, message_lower))
  IN Checked(Lower(message))
(***************************************************************************)
(* The pure functions, applied to inputs of bounded sets                   *)
(***************************************************************************)
\* Samsung Galaxy iPhone 15 (a listing that names two brands)
Item_Samsung_iPhone_15 ==
  <<"S","a","m","s","u","n","g"," ","i","P","h","o","n","e"," ","1","5">>
\* Bose AirPods
Item_Bose_AirPods == <<"B","o","s","e"," ","A","i","r","P","o","d","s">>
\* iphone case
Item_iphone_case == <<"i","p","h","o","n","e"," ","c","a","s","e">>
\* Dell XPS 13
Item_Dell_XPS_13 == <<"D","e","l","l"," ","X","P","S"," ","1","3">>

Name_iphone_airpods ==
  <<"i","p","h","o","n","e"," ","a","i","r","p","o","d","s">>
Name_macbook == <<"m","a","c","b","o","o","k">>

CandidateNames ==
  {Item_iPhone_15_128GB, Item_iPhone_15_Case, Item_Samsung_iPhone_15,
   Item_Bose_AirPods, Item_iphone_case, Item_Dell_XPS_13}
TargetNames ==
  {Name_iphone_15, Name_iphone, Name_iphone_airpods, Name_macbook, Item_iphone_case}
\* min_relevance_score: none asked, a low one, the default
MinScores == {Frac(0, 1), Frac(3, 10), Frac(65, 100)}

\* 兩萬五千  三千五百  一萬二千三百  三千  兩萬  一萬二千  五千
Numerals ==
  {<<"u5169","u842c","u4e94","u5343">>, <<"u4e09","u5343","u4e94","u767e">>,
   <<"u4e00","u842c","u4e8c","u5343","u4e09","u767e">>, <<"u4e09","u5343">>,
   <<"u5169","u842c">>, <<"u4e00","u842c","u4e8c","u5343">>, <<"u4e94","u5343">>}

\* iPhone 15 多少錢
Msg_iPhone_15_price ==
  <<"i","P","h","o","n","e"," ","1","5"," ","u591a","u5c11","u9322">>
\* iPhone 多少錢
Msg_iPhone_price == <<"i","P","h","o","n","e"," ","u591a","u5c11","u9322">>
\* 追蹤 iPhone 15 低於 25000
Msg_track_25000 ==
  <<"u8ffd","u8e64"," ","i","P","h","o","n","e"," ","1","5"," ","u4f4e","u65bc"," ",
    "2","5","0","0","0">>
\* 追蹤 iPhone 15 低於 23000
Msg_track_23000 ==
  <<"u8ffd","u8e64"," ","i","P","h","o","n","e"," ","1","5"," ","u4f4e","u65bc"," ",
    "2","3","0","0","0">>
\* 我的追蹤清單
Msg_list == <<"u6211","u7684","u8ffd","u8e64","u6e05","u55ae">>
Messages == {Msg_iPhone_15_price, Msg_iPhone_price, Msg_track_25000, Msg_track_23000,
             Msg_list}

\* 追蹤 iPhone 低於 0
Msg_track_0 ==
  <<"u8ffd","u8e64"," ","i","P","h","o","n","e"," ","u4f4e","u65bc"," ","0">>

\* the command formats of the help message, for the product macbook
\* macbook 價格
Msg_macbook_price == <<"m","a","c","b","o","o","k"," ","u50f9","u683c">>
\* macbook 多少錢
Msg_macbook_how_much == <<"m","a","c","b","o","o","k"," ","u591a","u5c11","u9322">>
\* 追蹤 macbook，目標價格 30000
Msg_track_macbook_target ==
  <<"u8ffd","u8e64"," ","m","a","c","b","o","o","k","uff0c","u76ee","u6a19","u50f9","u683c",
    " ","3","0","0","0","0">>
HelpMessages ==
  {Msg_macbook_price, Msg_macbook_how_much, Msg_track_macbook_target, Msg_list}

\* messages that hold keywords of several intents
\* macbook 價格 追蹤 設定 清單 說明
Msg_every_keyword ==
  <<"m","a","c","b","o","o","k"," ","u50f9","u683c"," ","u8ffd","u8e64"," ",
    "u8a2d","u5b9a"," ","u6e05","u55ae"," ","u8aaa","u660e">>
\* 追蹤 macbook 設定
Msg_track_and_settings ==
  <<"u8ffd","u8e64"," ","m","a","c","b","o","o","k"," ","u8a2d","u5b9a">>
\* 設定 清單
Msg_settings_and_list == <<"u8a2d","u5b9a"," ","u6e05","u55ae">>
\* 清單 說明
Msg_list_and_help == <<"u6e05","u55ae"," ","u8aaa","u660e">>
\* 說明
Msg_help == <<"u8aaa","u660e">>
\* macbook 低
Msg_macbook_low == <<"m","a","c","b","o","o","k"," ","u4f4e">>
OrderMessages ==
  {Msg_every_keyword, Msg_track_and_settings, Msg_settings_and_list,
   Msg_list_and_help, Msg_help, Msg_macbook_low}

\* tracking messages whose target amount is a composite numeral:
\* "追蹤 macbook " followed by the numeral (追蹤 macbook 兩萬五千)
TrackNumeralPrefix ==
  <<"u8ffd","u8e64"," ","m","a","c","b","o","o","k"," ">>
NumeralMessages == {TrackNumeralPrefix \o n : n \in Numerals}

\* the tracking command a price-query reply proposes for the product n and
\* the price p: "n 低於 p 元時通知我"
SuggestedCommand(n, p) ==
  n \o <<" ","u4f4e","u65bc"," ">> \o p \o <<" ","u5143","u6642","u901a","u77e5","u6211">>
SuggestedNames  == {Name_iphone, Name_macbook}
SuggestedPrices == {<<"2","4","9","0","0">>, <<"2","9","9">>}
SuggestedCommands == {SuggestedCommand(n, p) : n \in SuggestedNames, p \in SuggestedPrices}

\* one application in a behaviour: the functions keep no state
ApplyIsRelevantProduct(product_name, target_name, min_score, allow_accessories) ==
  /\ fn = Idle
  /\ fn' = [op |-> "is_relevant_product", product_name |-> product_name,
            target_name |-> target_name, min_score |-> min_score,
            allow_accessories |-> allow_accessories,
            result |-> is_relevant_product(product_name, target_name, min_score,
                                           allow_accessories)]
  /\ UNCHANGED <<price_trackers, user_preferences, database_type, user_trackers,
                 user_contexts, now, notifications, last, req>>

ApplyCalculateRelevanceScore(product_name, target_name) ==
  /\ fn = Idle
  /\ fn' = [op |-> "calculate_relevance_score", product_name |-> product_name,
            target_name |-> target_name,
            result |-> calculate_relevance_score(product_name, target_name)]
  /\ UNCHANGED <<price_trackers, user_preferences, database_type, user_trackers,
                 user_contexts, now, notifications, last, req>>

ApplyChineseToNumber(chinese_num) ==
  /\ fn = Idle
  /\ fn' = [op |-> "chinese_to_number", chinese_num |-> chinese_num,
            result |-> chinese_to_number(chinese_num)]
  /\ UNCHANGED <<price_trackers, user_preferences, database_type, user_trackers,
                 user_contexts, now, notifications, last, req>>

ApplyExtractIntent(message) ==
  /\ fn = Idle
  /\ fn' = [op |-> "extract_intent_with_context", message |-> message,
            result |-> extract_intent_with_context(message, None)]
  /\ UNCHANGED <<price_trackers, user_preferences, database_type, user_trackers,
                 user_contexts, now, notifications, last, req>>


\* messages that hold no keyword of the classifier
\* 你好
Msg_hello == <<"u4f60","u597d">>
\* 這個好嗎
Msg_is_this_good == <<"u9019","u500b","u597d","u55ce">>
\* HELP
Msg_HELP == <<"H","E","L","P">>
\* thanks 123
Msg_thanks_123 == <<"t","h","a","n","k","s"," ","1","2","3">>
PlainMessages == {<<>>, Msg_hello, Msg_is_this_good, Msg_HELP, Msg_thanks_123}

\* the conversation contexts a message is classified in: none, a new one, one
\* that remembers a product
Contexts ==
  {None, Some(NewContext),
   Some([last_product |-> Some(Name_iphone_15), last_action |-> Some("query_price"),
         last_price |-> Some(24900)])}

ApplyExtractIntentInContext(message, context) ==
  /\ fn = Idle
  /\ fn' = [op |-> "extract_intent_with_context", message |-> message,
            context |-> context,
            result |-> extract_intent_with_context(message, context)]
  /\ UNCHANGED <<price_trackers, user_preferences, database_type, user_trackers,
                 user_contexts, now, notifications, last, req>>

\* the canonical product keywords of the alias table
CanonicalNames ==
  {Name_iphone, <<"a","i","r","p","o","d","s">>, <<"p","s","5">>,
   <<"s","w","i","t","c","h">>, Name_macbook, <<"v","i","p","e","r">>}
\* texts that hold an alias: 愛鳳 15, AirPod Pro, viper v3pro, PlayStation 5,
\* macbook pro 14
AliasTexts ==
  {<<"u611b","u9cf3"," ","1","5">>, <<"A","i","r","P","o","d"," ","P","r","o">>,
   <<"v","i","p","e","r"," ","v","3","p","r","o">>,
   <<"P","l","a","y","S","t","a","t","i","o","n"," ","5">>,
   <<"m","a","c","b","o","o","k"," ","p","r","o"," ","1","4">>}

ApplyNormalizeProductName(text) ==
  /\ fn = Idle
  /\ fn' = [op |-> "normalize_product_name", text |-> text,
            result |-> normalize_product_name(text)]
  /\ UNCHANGED <<price_trackers, user_preferences, database_type, user_trackers,
                 user_contexts, now, notifications, last, req>>

\* iPhone 15 評價如何
Msg_iPhone_review == <<"i","P","h","o","n","e"," ","1","5"," ","u8a55","u50f9","u5982","u4f55">>

\* iPhone 15 評價和價格
Msg_review_and_price == <<"i","P","h","o","n","e"," ","1","5"," ","u8a55","u50f9","u548c","u50f9","u683c">>

\* 評價
Msg_review_word == <<"u8a55","u50f9">>

\* 價格 推薦
Msg_price_recommend == <<"u50f9","u683c"," ","u63a8","u85a6">>

\* 便宜 特價 好用
Msg_cheap_sale_handy == <<"u4fbf","u5b9c"," ","u7279","u50f9"," ","u597d","u7528">>

\* 好用 便宜
Msg_handy_cheap == <<"u597d","u7528"," ","u4fbf","u5b9c">>

\* 今天天氣 iPhone 價格
Msg_weather_price == <<"u4eca","u5929","u5929","u6c23"," ","i","P","h","o","n","e"," ","u50f9","u683c">>

\* Python 書籍推薦
Msg_Python_books == <<"P","y","t","h","o","n"," ","u66f8","u7c4d","u63a8","u85a6">>

\* 遊戲機多少錢
Msg_console_price == <<"u904a","u6232","u6a5f","u591a","u5c11","u9322">>

\* 謝謝 iphone 評價
Msg_thanks_review == <<"u8b1d","u8b1d"," ","i","p","h","o","n","e"," ","u8a55","u50f9">>

\* 想買PS5
Msg_buy_ps5 == <<"u60f3","u8cb7","P","S","5">>

\* iPhone跟Pixel哪個好
Msg_compare == <<"i","P","h","o","n","e","u8ddf","P","i","x","e","l","u54ea","u500b","u597d">>

\* 追蹤 iPhone 降價
Msg_track_drop == <<"u8ffd","u8e64"," ","i","P","h","o","n","e"," ","u964d","u50f9">>

\* PS5哪裡買比較便宜
Msg_where_cheap == <<"P","S","5","u54ea","u88e1","u8cb7","u6bd4","u8f03","u4fbf","u5b9c">>

\* PS5特價通知
Msg_sale_notify == <<"P","S","5","u7279","u50f9","u901a","u77e5">>

\* the messages handed to the dispatcher
DispatchMessages ==
  {<<>>, Name_iphone, Msg_hello, Msg_iPhone_15_price,
   Msg_iPhone_review, Msg_review_and_price, Msg_review_word,
   Msg_price_recommend, Msg_cheap_sale_handy, Msg_handy_cheap, Msg_weather_price,
   Msg_Python_books, Msg_console_price, Msg_thanks_review, Msg_buy_ps5,
   Msg_compare, Msg_track_drop, Msg_where_cheap, Msg_sale_notify}

ApplyAnalyzeUserIntent(message) ==
  /\ fn = Idle
  /\ fn' = [op |-> "analyze_user_intent", message |-> message,
            result |-> analyze_user_intent(message)]
  /\ UNCHANGED <<price_trackers, user_preferences, database_type, user_trackers,
                 user_contexts, now, notifications, last, req>>
(***************************************************************************)
(* Two requests handled at the same time                                   *)
(* invoke_price_tracker_agent builds a tracker instance of its own for     *)
(* every request, and the web server runs every request on its own thread; *)
(* the steps of a request are the statements it sends to the database.     *)
(***************************************************************************)
Threads == {"t1", "t2"}

\* a request that has not started
NewRequest(u, intent) ==
  [pc |-> "start", user |-> u, intent |-> intent, ut |-> [v \in Users |-> None],
   list |-> <<>>, k |-> 0]

\* SmartPriceTracker(line_bot_api): the instance loads its own cache
Construct(t) ==
  /\ req[t].pc = "start"
  /\ req' = [req EXCEPT ![t].pc = "constructed",
                        ![t].ut = load_all_trackers(price_trackers, FALSE, {})]
  /\ UNCHANGED <<price_trackers, user_preferences, database_type, user_trackers,
                 user_contexts, now, notifications, last, fn>>

\* handle_track_product, lines 1121-1133: the list of the user is taken from
\* the cache of the instance, or loaded, and searched for the product
Lookup(t) ==
  /\ req[t].pc = "constructed"
  /\ \E list0 \in {IF Len(req[t].ut[req[t].user]) = 0
                   THEN load_user_trackers(price_trackers, req[t].user, FALSE)
                   ELSE req[t].ut[req[t].user][1]} :
       req' = [req EXCEPT ![t].pc = "looked",
                          ![t].list = list0,
                          ![t].k = FindExisting(list0, req[t].intent.product_name[1])]
  /\ UNCHANGED <<price_trackers, user_preferences, database_type, user_trackers,
                 user_contexts, now, notifications, last, fn>>

\* handle_track_product, lines 1135-1184: the UPDATE of the tracker found, or
\* the INSERT of a new one
Write(t) ==
  /\ req[t].pc = "looked"
  /\ now' = now + 1
  /\ LET r == req[t]
         product_name == r.intent.product_name[1]
         target_price == ParseFloat(r.intent.target_price[1])[1]
     IN IF r.k > 0
        THEN /\ price_trackers' = UpdateTarget(price_trackers, r.list[r.k].tracker_id,
                                               target_price, now + 1, FALSE)
             /\ req' = [req EXCEPT ![t].pc = "written",
                          ![t].list = [r.list EXCEPT ![r.k].target_price = target_price,
                                                     ![r.k].is_active = TRUE,
                                                     ![r.k].created_at = now + 1]]
        ELSE \E new_tracker \in {PriceTracker(r.user, product_name, target_price,
                                              now + 1)} :
               /\ price_trackers' = save_tracker(price_trackers, new_tracker)
               /\ req' = [req EXCEPT ![t].pc = "written",
                            ![t].list = Append(r.list,
                               [new_tracker EXCEPT
                                  !.tracker_id = Some(Len(price_trackers) + 1)]),
                            ![t].k = Len(r.list) + 1]
  /\ UNCHANGED <<user_preferences, database_type, user_trackers, user_contexts,
                 notifications, last, fn>>

\* handle_track_product, lines 1186-1215: the immediate search; the instance
\* and its cache are dropped when the reply is returned
Finish(t, findprice) ==
  /\ req[t].pc = "written"
  /\ \E out \in {TrackSearch(req[t].ut, price_trackers, user_preferences, now,
                             req[t].user, req[t].list, req[t].k,
                             req[t].intent.product_name[1],
                             ParseFloat(req[t].intent.target_price[1])[1], "done",
                             None, findprice, SourceFails, NoSearchFaults)} :
       /\ price_trackers' = out.table
       /\ user_preferences' = out.prefs
       /\ req' = [req EXCEPT ![t].pc = "done", ![t].ut = out.ut,
                             ![t].list = out.ut[req[t].user][1]]
  /\ UNCHANGED <<database_type, user_trackers, user_contexts, now, notifications,
                 last, fn>>

(***************************************************************************)
(* Initial states                                                          *)
(***************************************************************************)
\* the state after the first construction on an empty database file
InitStore ==
  /\ price_trackers = <<>>
  /\ user_preferences = [u \in Users |-> None]
  /\ database_type \in {"sqlite", "postgresql"}
  /\ user_trackers = [u \in Users |-> None]
  /\ user_contexts = [u \in Users |-> None]
  /\ now = 0
  /\ notifications = <<>>
  /\ last = [op |-> "new"]

Init ==
  /\ InitStore
  /\ req = Idle
  /\ fn = Idle

(***************************************************************************)
(* Requests handled one after the other                                    *)
(***************************************************************************)
\* the products asked for and the target prices given
TrackNames   == {Name_iphone, Name_iPhone}
TargetTexts  == {<<"2","0","0","0","0">>, <<"2","3","0","0","0">>}
TrackIntents ==
  {Intent("track_product", Some(n), Some(t), FALSE, FALSE) :
     n \in TrackNames, t \in TargetTexts}

\* what FindPrice answers to the immediate search (BigGo does not answer)
TrackAnswers == {SourceFails, Answer(<<RawItem(Item_iPhone_15_128GB, 22000)>>)}

\* the store faults a request may meet: none, or one statement raises
Faults ==
  {NoFaults,
   [NoFaults EXCEPT !.load = TRUE],
   [NoFaults EXCEPT !.update = TRUE],
   [NoFaults EXCEPT !.save = TRUE]}

\* tracking and listing, the store faults of the requests included; a new
\* instance may take over between two requests
Next ==
  \/ NewInstance(FALSE, {})
  \/ \E u \in Users, intent \in TrackIntents, f \in Faults, findprice \in TrackAnswers :
       HandleTrackProduct(u, intent, f, findprice, SourceFails, NoSearchFaults)
  \/ \E u \in Users, loadFails \in BOOLEAN : HandleListTrackers(u, loadFails)

Spec == Init /\ [][Next]_vars

\* what FindPrice answers when the price found may equal the target
TrackAnswersExact ==
  TrackAnswers \cup {Answer(<<RawItem(Item_iPhone_15_128GB, 23000)>>)}

\* tracking and listing while every statement succeeds
NextNoFault ==
  \/ NewInstance(FALSE, {})
  \/ \E u \in Users, intent \in TrackIntents, findprice \in TrackAnswers :
       HandleTrackProduct(u, intent, NoFaults, findprice, SourceFails, NoSearchFaults)
  \/ \E u \in Users : HandleListTrackers(u, FALSE)

SpecNoFault == Init /\ [][NextNoFault]_vars

\* tracking requests alone, each with its immediate search
NextCheck ==
  \E u \in Users, intent \in TrackIntents, findprice \in TrackAnswersExact :
    HandleTrackProduct(u, intent, NoFaults, findprice, SourceFails, NoSearchFaults)

SpecCheck == Init /\ [][NextCheck]_vars

\* target prices that float() rejects: abc, the empty text, 2萬
MalformedTexts == {<<"a","b","c">>, <<>>, <<"2","u842c">>}
MalformedIntents ==
  {Intent("track_product", Some(n), Some(t), FALSE, FALSE) :
     n \in TrackNames, t \in MalformedTexts}

\* tracking requests with well-formed and malformed target prices, and listing
NextIntent ==
  \/ \E u \in Users, intent \in TrackIntents \cup MalformedIntents :
       HandleTrackProduct(u, intent, NoFaults, SourceFails, SourceFails, NoSearchFaults)
  \/ \E u \in Users : HandleListTrackers(u, FALSE)

SpecIntent == Init /\ [][NextIntent]_vars

\* the messages classified in a context
ContextMessages == PlainMessages

\* the pure functions
NextFn ==
  \/ \E p \in CandidateNames, t \in TargetNames, m \in MinScores, a \in BOOLEAN :
       ApplyIsRelevantProduct(p, t, m, a)
  \/ \E p \in CandidateNames, t \in TargetNames : ApplyCalculateRelevanceScore(p, t)
  \/ \E c \in Numerals : ApplyChineseToNumber(c)
  \/ \E m \in Messages \cup HelpMessages \cup OrderMessages \cup NumeralMessages
                \cup SuggestedCommands :
       ApplyExtractIntent(m)
  \/ \E m \in ContextMessages, c \in Contexts : ApplyExtractIntentInContext(m, c)
  \/ \E t \in CanonicalNames \cup AliasTexts : ApplyNormalizeProductName(t)
  \/ \E m \in DispatchMessages : ApplyAnalyzeUserIntent(m)

SpecFn == Init /\ [][NextFn]_vars

\* the periodic re-check of the trackers set up by tracking requests
SweepAnswers ==
  {SourceFails, Answer(<<RawItem(Item_iPhone_15_128GB, 19500)>>),
   Answer(<<RawItem(Item_iPhone_15_128GB, 22000)>>)}

NextSweep ==
  \/ \E u \in Users, intent \in TrackIntents, findprice \in TrackAnswers :
       HandleTrackProduct(u, intent, NoFaults, findprice, SourceFails, NoSearchFaults)
  \/ \E u \in Users, k \in 1..MaxClock, findprice \in SweepAnswers :
       PeriodicCheck(u, k, findprice, SourceFails, NoSearchFaults)

SpecSweep == Init /\ [][NextSweep]_vars

\* price queries and the accessory setting
QueryNames == {Name_iphone_15}
FindPriceAnswers ==
  {SourceFails,
   Answer(<<RawItem(Item_iPhone_15_128GB, 24900), RawItem(Item_iPhone_15_Case, 299)>>),
   Answer(<<RawItem(Item_iPhone_15_Case, 299)>>)}
BigGoAnswers ==
  {SourceFails,
   Answer(<<RawItem(Item_iPhone_15_Case, 199), RawItem(Item_iPhone_15_128GB, 25900)>>)}
\* the faults of a search: none, the first read of the preferences raises,
\* the INSERT of the default preferences raises
SearchFaults ==
  {NoSearchFaults,
   [NoSearchFaults EXCEPT !.read1 = TRUE],
   [NoSearchFaults EXCEPT !.write = TRUE]}
\* 允許配件
Msg_AllowAccessories == <<"u5141","u8a31","u914d","u4ef6">>
\* 過濾配件
Msg_FilterAccessories == <<"u904e","u6ffe","u914d","u4ef6">>

NextSearch ==
  \/ \E u \in Users, n \in QueryNames, findprice \in FindPriceAnswers,
        biggo \in BigGoAnswers, sf \in SearchFaults :
       HandlePriceQuery(u, n, findprice, biggo, sf)
  \/ \E u \in Users, m \in {Msg_AllowAccessories, Msg_FilterAccessories},
        upsertFails \in BOOLEAN :
       HandleUserSettings(u, m, upsertFails, FALSE, FALSE)

SpecSearch == Init /\ [][NextSearch]_vars

\* 追蹤這個
Msg_track_this == <<"u8ffd","u8e64","u9019","u500b">>

\* price queries answered with listings that repeat and with long pages
Link_shop  == "https://shop.example/iphone"
Link_other == "https://other.example/iphone"
\* twelve listings of falling price, ten listings of rising price
LongFindPricePage == [k \in 1..12 |-> RawItem(Name_iPhone, 30000 - 100 * k)]
LongBigGoPage     == [k \in 1..10 |-> RawItem(Name_iPhone, 26000 + 100 * k)]
AggregateFindPriceAnswers ==
  {SourceFails,
   Answer(<<LinkedItem(Name_iPhone, 24900, Link_shop)>>),
   Answer(<<LinkedItem(Name_iPhone, 24900, Link_shop),
            LinkedItem(Name_iPhone, 24900, Link_shop)>>),
   Answer(LongFindPricePage)}
AggregateBigGoAnswers ==
  {SourceFails,
   Answer(<<LinkedItem(Name_iPhone, 25900, Link_other),
            LinkedItem(Name_iPhone, 24900, Link_shop)>>),
   Answer(LongBigGoPage)}

NextAggregate ==
  \/ \E u \in Users, findprice \in AggregateFindPriceAnswers,
        biggo \in AggregateBigGoAnswers :
       HandlePriceQuery(u, Name_iphone, findprice, biggo, NoSearchFaults)
  \/ \E u \in Users : HandleUserSettings(u, Msg_AllowAccessories, FALSE, FALSE, FALSE)

SpecAggregate == Init /\ [][NextAggregate]_vars

\* The settings commands on a database that holds preference rows already.
\* The database outlives the process, and the filter takes min_relevance_score
\* from the stored row: a row may hold the column defaults or values set for
\* the user (here a threshold of 0.5 and a preferred platform).
TunedPreferencesRow ==
  [allow_accessories |-> FALSE, min_relevance_score |-> Frac(50, 100),
   preferred_platforms |-> Some("momo"), notification_settings |-> None]
InitPrefs ==
  /\ price_trackers = <<>>
  /\ user_preferences \in [Users -> {None, Some(DefaultPreferencesRow),
                                      Some(TunedPreferencesRow)}]
  /\ database_type \in {"sqlite", "postgresql"}
  /\ user_trackers = [u \in Users |-> None]
  /\ user_contexts = [u \in Users |-> None]
  /\ now = 0
  /\ notifications = <<>>
  /\ last = [op |-> "new"]
  /\ req = Idle
  /\ fn = Idle

NextPrefs ==
  \/ \E u \in Users, m \in {Msg_AllowAccessories, Msg_FilterAccessories} :
       HandleUserSettings(u, m, FALSE, FALSE, FALSE)
  \/ \E u \in Users :
       HandleTrackProduct(u, Intent("track_product", Some(Name_iphone),
                                    Some(<<"2","0","0","0","0">>), FALSE, FALSE),
                          NoFaults, SourceFails, SourceFails, NoSearchFaults)

SpecPrefs == InitPrefs /\ [][NextPrefs]_vars

\* the messages of a user, classified and handled
NextMsg ==
  \E u \in Users, m \in Messages \cup {Msg_track_0, Msg_track_this},
     findprice \in TrackAnswers :
    ProcessMessage(u, m, NoFaults, findprice, SourceFails, NoSearchFaults)

SpecMsg == Init /\ [][NextMsg]_vars

\* the messages of a user, each handed to invoke_price_tracker_agent
NextAgent ==
  \E u \in Users, m \in Messages \cup {Msg_track_this}, findprice \in TrackAnswers :
    InvokePriceTrackerAgent(u, m, NoFaults, findprice, SourceFails, NoSearchFaults)

SpecAgent == Init /\ [][NextAgent]_vars

\* two requests at the same time
InitRace ==
  /\ InitStore
  /\ req \in [Threads -> {NewRequest(u, intent) : u \in Users, intent \in TrackIntents}]
  /\ fn = Idle

NextRace ==
  \E t \in Threads :
    \/ Construct(t)
    \/ Lookup(t)
    \/ Write(t)
    \/ \E findprice \in TrackAnswers : Finish(t, findprice)

SpecRace == InitRace /\ [][NextRace]_vars

(***************************************************************************)
(* Properties                                                              *)
(***************************************************************************)
\* the active rows of the table for a user and a product, the names compared
\* without regard to case
ActiveRows(table, u, name) ==
  {i \in 1..Len(table) :
     /\ table[i].user_id = u
     /\ table[i].is_active
     /\ Lower(table[i].product_name) = Lower(name)}

\* the trackers of the cached list of a user for a product
CachedFor(ut, u, name) ==
  IF Len(ut[u]) = 0 THEN {}
  ELSE {k \in 1..Len(ut[u][1]) : Lower(ut[u][1][k].product_name) = Lower(name)}

\* C1: in every state reachable by tracking and listing requests of any
\* users, swallowed store faults included, the store holds at most one
\* active tracker row per user and product name compared without regard to
\* case.
C1_OneActiveRowPerProduct ==
  \A i, j \in 1..Len(price_trackers) :
    ( /\ price_trackers[i].is_active
      /\ price_trackers[j].is_active
      /\ price_trackers[i].user_id = price_trackers[j].user_id
      /\ Lower(price_trackers[i].product_name) = Lower(price_trackers[j].product_name) )
    => i = j

\* C2: a tracking request of user u for a product n that u already tracks
\* (an earlier request for n was handled), with target p2, leaves exactly one
\* active tracker for (u, n); its target is p2, and it is the tracker that
\* was there, updated in place: the same row and tracker_id, active, and no
\* row inserted.  A first request for n leaves exactly one active tracker too.
C2_UpsertInPlace ==
  [][ (last'.op = "track" /\ now' = now + 1 /\ last'.reply \in {"created", "updated"})
      => LET u  == last'.user
             n  == last'.intent.product_name[1]
             p2 == ParseFloat(last'.intent.target_price[1])[1]
             before == ActiveRows(price_trackers, u, n)
             after  == ActiveRows(price_trackers', u, n)
             cached == CachedFor(user_trackers', u, n)
         IN /\ Cardinality(after) = 1
            /\ \A i \in after :
                 /\ price_trackers'[i].target_price = p2
                 /\ Cardinality(cached) = 1
                 /\ \A k \in cached :
                      /\ user_trackers'[u][1][k].tracker_id = Some(price_trackers'[i].id)
                      /\ user_trackers'[u][1][k].target_price = p2
                      /\ user_trackers'[u][1][k].is_active
            /\ before # {} =>
                 /\ after = before
                 /\ Len(price_trackers') = Len(price_trackers)
                 /\ \A i \in before : price_trackers'[i].id = price_trackers[i].id
                 /\ last'.reply = "updated"
    ]_vars

\* C2 happens: a second request for the product, with the price of the
\* first, updated the one tracker of the user
C2_Witness ==
  /\ last.op = "track"
  /\ last.reply = "updated"
  /\ last.old_price = Some(ParseFloat(last.intent.target_price[1])[1])
  /\ Len(price_trackers) = 1
  /\ price_trackers[1].is_active
  /\ price_trackers[1].created_at = now
  /\ now = 2

\* C3: when a user sends "追蹤 iPhone 15 低於 25000" and then
\* "追蹤 iPhone 15 低於 23000", each classified and its intent handled, the
\* store holds exactly one active tracker of the user, and its target is 23000.
C3_ScenarioB ==
  [][ ( /\ last.op = "message" /\ last.message = Msg_track_25000
        /\ last'.op = "message" /\ last'.message = Msg_track_23000
        /\ last'.user = last.user
        /\ now' = now + 1 )
      => LET rows == {i \in 1..Len(price_trackers') :
                        /\ price_trackers'[i].user_id = last'.user
                        /\ price_trackers'[i].is_active}
         IN /\ Cardinality(rows) = 1
            /\ \A i \in rows : price_trackers'[i].target_price = 23000
    ]_vars

\* C4: the classifier maps "iPhone 15 多少錢" to a query_price intent whose
\* product name is "iphone 15", the lower-cased product phrase with its model
\* number.
C4_QueryKeepsModelNumber ==
  (fn.op = "extract_intent_with_context" /\ fn.message = Msg_iPhone_15_price)
  => /\ fn.result.action = "query_price"
     /\ fn.result.product_name = Some(Name_iphone_15)

\* a name holds an accessory keyword, case disregarded
HasAccessoryKeyword(name) ==
  \/ \E i \in 1..Len(accessory_keywords_zh) :
       Contains(Lower(accessory_keywords_zh[i]), Lower(name))
  \/ \E i \in 1..Len(accessory_keywords_en) :
       Contains(Lower(accessory_keywords_en[i]), Lower(name))

\* C5: for a user whose allow_accessories is false, no accessory appears in
\* the result of search_comprehensive_prices, so none is the cheapest item;
\* for "iphone 15" with the items ("iPhone 15 128GB", 24900) and
\* ("iPhone 15 保護殼", 299) the cheapest price reported is 24900.
C5_NoAccessoryInResult ==
  (last.op = "query" /\ ~last.stored_allow)
  => /\ \A k \in 1..Len(last.result.all_results) :
          ~HasAccessoryKeyword(last.result.all_results[k].name)
     /\ Len(last.result.cheapest_item) > 0
          => ~HasAccessoryKeyword(last.result.cheapest_item[1].name)
     /\ ( /\ last.product_name = Name_iphone_15
          /\ last.findprice = Answer(<<RawItem(Item_iPhone_15_128GB, 24900),
                                       RawItem(Item_iPhone_15_Case, 299)>>)
          /\ last.biggo = SourceFails )
        => /\ Len(last.result.cheapest_item) > 0
           /\ last.result.min_price = 24900

\* C5 happens: the case was offered to a user who does not allow
\* accessories, and the result holds the phone alone
C5_Witness ==
  /\ last.op = "query"
  /\ ~last.stored_allow
  /\ last.findprice = Answer(<<RawItem(Item_iPhone_15_128GB, 24900),
                               RawItem(Item_iPhone_15_Case, 299)>>)
  /\ last.biggo = SourceFails
  /\ last.result.total_results = 1
  /\ last.result.min_price = 24900

\* C6: two tracking requests of one user for one brand-new product, handled
\* at the same time by a thread and a tracker instance each, leave exactly
\* one active tracker row for the user and the product, whatever the
\* interleaving.
C6_ConcurrentRequestsOneRow ==
  ( /\ \A t \in Threads : req[t].pc = "done"
    /\ req["t1"].user = req["t2"].user
    /\ Lower(req["t1"].intent.product_name[1]) = Lower(req["t2"].intent.product_name[1]) )
  => Cardinality(ActiveRows(price_trackers, req["t1"].user,
                            req["t1"].intent.product_name[1])) = 1

C8_AccessoryNeverRelevant ==
  ( /\ fn.op = "is_relevant_product"
    /\ ~fn.allow_accessories
    /\ HasAccessoryKeyword(fn.product_name) )
  => fn.result = FALSE

\* C8 happens: an accessory named exactly like the target, no minimum score
C8_Witness ==
  /\ fn.op = "is_relevant_product"
  /\ ~fn.allow_accessories
  /\ fn.product_name = Item_iphone_case
  /\ fn.target_name = Item_iphone_case
  /\ fn.min_score = Frac(0, 1)
  /\ fn.result = FALSE

\* C9: when the target holds a family keyword of the brand-exclusion table
\* (one family or more) and the candidate holds a competing brand of such a
\* family, calculate_relevance_score is at most 0.1 times the score before
\* the brand-conflict penalty.
C9_BrandConflictPenalty ==
  ( /\ fn.op = "calculate_relevance_score"
    /\ \E i \in 1..Len(brand_exclusions) :
         /\ Contains(brand_exclusions[i][1], Lower(fn.target_name))
         /\ ContainsAny(brand_exclusions[i][2], Lower(fn.product_name)) )
  => FracLeq(fn.result,
             FracMul(Frac(1, 10),
                     ScoreBeforeBrandPenalty(fn.product_name, fn.target_name)))

\* the integer a well-formed numeral encodes: split on the greatest magnitude
\* word, multiplier (1 when elided) times magnitude plus remainder
RECURSIVE EncodedValue(_)
EncodedValue(s) ==
  IF Len(s) = 0 THEN 0
  ELSE LET Split2(m) == SplitOn(s, m)
           Value(m, v) ==
             (IF Len(Split2(m)[1]) = 0 THEN 1 ELSE EncodedValue(Split2(m)[1])) * v
             + EncodedValue(Split2(m)[2])
       IN IF Contains(<<CharWan>>, s) THEN Value(CharWan, 10000)
          ELSE IF Contains(<<CharQian>>, s) THEN Value(CharQian, 1000)
          ELSE IF Contains(<<CharBai>>, s) THEN Value(CharBai, 100)
          ELSE IF Contains(<<CharShi>>, s) THEN Value(CharShi, 10)
          ELSE NumberOf(<<s[1]>>)

\* C10: for a well-formed composite numeral below 100000 (兩萬五千 = 25000,
\* 三千五百 = 3500, 一萬二千三百 = 12300) chinese_to_number returns the
\* integer it encodes.
C10_NumeralExact ==
  fn.op = "chinese_to_number"
  => fn.result = Some(EncodedValue(fn.chinese_num))
\* the items of a list, as a set
ItemsOf(list) == {list[k] : k \in 1..Len(list)}

\* C11: when one of the two sources fails during search_comprehensive_prices,
\* the result holds exactly the items that the other source's search returns
\* (its relevant items), and cheapest_item, min_price and total_results are
\* those of these items alone; when both fail the result is the empty result.
C11_PartialFailure ==
  [][ (last'.op = "query" /\ (~last'.findprice.ok \/ ~last'.biggo.ok))
      => \A result \in {last'.result} :
         \A expected \in
              {IF last'.findprice.ok
               THEN SearchSource("FindPrice", last'.findprice, last'.product_name,
                                 last'.user, user_preferences, last'.sf.read1,
                                 last'.sf.write)[1]
               ELSE SearchSource("BigGo", last'.biggo, last'.product_name,
                                 last'.user, user_preferences, last'.sf.read2,
                                 last'.sf.write)[1]} :
           IF Len(expected) = 0
           THEN result = EmptyResult(last'.product_name)
           ELSE /\ ItemsOf(result.all_results) = ItemsOf(expected)
                /\ Len(result.all_results) = Len(expected)
                /\ result.total_results = Len(expected)
                /\ Len(result.cheapest_item) > 0
                /\ result.cheapest_item[1] \in ItemsOf(expected)
                /\ result.min_price = result.cheapest_item[1].price
                /\ \A k \in 1..Len(expected) : result.min_price <= expected[k].price
    ]_vars

\* C11 happens: FindPrice failed, BigGo answered with the case and the phone,
\* and the result holds the phone of BigGo alone
C11_Witness ==
  /\ last.op = "query"
  /\ ~last.findprice.ok
  /\ last.biggo.ok
  /\ last.result.total_results = 1
  /\ last.result.min_price = 25900
  /\ last.result.cheapest_item[1].platform = "BigGo"

\* a message holds none of the keywords of the classifier: the price-query
\* and tracking keywords, the settings, listing and help keywords, and the
\* product and brand keywords (letters compared without regard to case)
HoldsNoKeyword(message) ==
  /\ ~ContainsAny(price_query_keywords, Lower(message))
  /\ ~ContainsAny(track_product_keywords, Lower(message))
  /\ ~ContainsAny(settings_keywords, message)
  /\ ~ContainsAny(listing_keywords, message)
  /\ ~ContainsAny(help_keywords, message)
  /\ ~ContainsAny(product_keywords, Lower(message))

\* C12: a message that holds none of the price-query, tracking, settings,
\* listing or help keywords and no product or brand keyword is classified
\* 'unknown' with a suggestion, in every conversation context and without one.
C12_UnknownFallback ==
  (fn.op = "extract_intent_with_context" /\ HoldsNoKeyword(fn.message))
  => /\ fn.result.action = "unknown"
     /\ fn.result.suggestion
     /\ fn.result.product_name = None
     /\ fn.result.target_price = None

\* C12 happens: a short message with an anaphora word, classified in a
\* context that remembers a product, is unknown
C12_Witness ==
  /\ fn.op = "extract_intent_with_context"
  /\ fn.message = Msg_is_this_good
  /\ "context" \in DOMAIN fn
  /\ Len(fn.context) > 0
  /\ Len(fn.context[1].last_product) > 0
  /\ fn.result.action = "unknown"
  /\ fn.result.suggestion

\* C13: update_tracker_price(tracker_id, price) sets last_price of the stored
\* row to the price and last_checked to the current time, on SQLite and on
\* PostgreSQL: after a tracking request whose immediate search found a price,
\* the stored row of the tracker holds the price found and the time of the
\* request, as the cached tracker does.
C13_UpdatePriceStored ==
  (last.op = "track" /\ last.note \in {"met", "gap"})
  => \A k \in CachedFor(user_trackers, last.user, last.intent.product_name[1]) :
       LET tracker == user_trackers[last.user][1][k] IN
       Len(tracker.tracker_id) > 0
       => /\ Len(price_trackers[tracker.tracker_id[1]].last_price) > 0
          /\ price_trackers[tracker.tracker_id[1]].last_price = tracker.last_price
          /\ price_trackers[tracker.tracker_id[1]].last_checked = Some(now)

\* C14: get_user_preferences(u) returns the stored row when one exists, and
\* the defaults (allow_accessories false, min_relevance_score 0.65) when none
\* does: the setting that handle_user_settings reads back after its upsert is
\* the stored row of the user.
C14_StoredRowReturned ==
  last.op = "settings"
  => IF Len(user_preferences[last.user]) > 0
     THEN last.shown = user_preferences[last.user][1]
     ELSE last.shown = default_prefs

\* C15: when the target_price of a track_product intent is no number,
\* handle_track_product answers with the invalid-price-format message and
\* changes nothing: the cached tracker lists and the stored rows are what they
\* were before the call.
C15_InvalidPriceNoChange ==
  [][ ( /\ last'.op = "track"
        /\ now' = now + 1
        /\ last'.intent.action = "track_product"
        /\ Len(last'.intent.target_price) > 0
        /\ last'.intent.target_price[1] \in MalformedTexts )
      => /\ last'.reply = "invalid_price"
         /\ user_trackers' = user_trackers
         /\ price_trackers' = price_trackers
    ]_vars

\* C15 happens: a request with the target "abc" for a product the user tracks
\* was answered with the invalid-price message, and the tracker is as it was
C15_Witness ==
  /\ last.op = "track"
  /\ last.intent.target_price = Some(<<"a","b","c">>)
  /\ last.reply = "invalid_price"
  /\ Len(price_trackers) = 1
  /\ price_trackers[1].user_id = last.user
  /\ price_trackers[1].target_price = 20000
  /\ Len(user_trackers[last.user]) > 0
  /\ Len(user_trackers[last.user][1]) = 1
  /\ user_trackers[last.user][1][1].target_price = 20000

\* C16: when the UPDATE or the INSERT of handle_track_product fails, the
\* reply is the generic try-again-later message, never a confirmation, and
\* the tracker is not left half-written: the cached tracker and its stored row
\* agree on target_price afterwards.
C16_WriteFailureGenericReply ==
  [][ ( /\ last'.op = "track"
        /\ now' = now + 1
        /\ last'.intent.action = "track_product"
        /\ Len(ParseFloat(last'.intent.target_price[1])) > 0
        /\ \/ /\ last'.faults.update
              /\ CachedFor(user_trackers, last'.user, last'.intent.product_name[1]) # {}
           \/ /\ last'.faults.save
              /\ CachedFor(user_trackers', last'.user, last'.intent.product_name[1]) = {} )
      => /\ last'.reply = "error"
         /\ \A k \in 1..Len(user_trackers'[last'.user][1]) :
              LET tracker == user_trackers'[last'.user][1][k] IN
              Len(tracker.tracker_id) > 0
              => price_trackers'[tracker.tracker_id[1]].target_price
                   = tracker.target_price
    ]_vars

\* C17: every tracker of the cache and every row of the store has a positive
\* target_price, whatever messages were classified and handled.
C17_PositiveTargetPrice ==
  /\ \A i \in 1..Len(price_trackers) : price_trackers[i].target_price > 0
  /\ \A u \in Users :
       Len(user_trackers[u]) > 0
       => \A k \in 1..Len(user_trackers[u][1]) :
            user_trackers[u][1][k].target_price > 0

\* C18: every command format of the help message is classified to the action
\* the help documents for it: "<product> 價格" and "<product> 多少錢" to
\* query_price, "追蹤 <product>，目標價格 <amount>" to track_product with the
\* amount as target price, and "我的追蹤清單" to list_trackers.
C18_HelpFormatsClassified ==
  fn.op = "extract_intent_with_context"
  => /\ fn.message \in {Msg_macbook_price, Msg_macbook_how_much}
          => fn.result.action = "query_price"
     /\ fn.message = Msg_track_macbook_target
          => /\ fn.result.action = "track_product"
             /\ fn.result.target_price = Some(<<"3","0","0","0","0">>)
     /\ fn.message = Msg_list
          => fn.result.action = "list_trackers"

\* the relevance score without the accessory penalty: the factor 0.3 of an
\* accessory candidate taken out again
UnpenalisedScore(product_name, target_name) ==
  IF is_accessory(product_name)
  THEN FracMul(calculate_relevance_score(product_name, target_name), Frac(10, 3))
  ELSE calculate_relevance_score(product_name, target_name)

\* C19: with allow_accessories = true the accessory penalty is not applied:
\* is_relevant_product(candidate, target, min_score, true) is true exactly
\* when the unpenalised score is at least min_score ("iPhone 15 保護殼" for
\* "iphone 15", score 0.8, passes the threshold 0.65).
C19_NoPenaltyWhenAllowed ==
  (fn.op = "is_relevant_product" /\ fn.allow_accessories)
  => ( fn.result
       <=> FracGeq(UnpenalisedScore(fn.product_name, fn.target_name), fn.min_score) )

\* C20: when the context shortcut does not apply, the first test that matches
\* decides, in the documented order: a price-query keyword with a product
\* name gives query_price whatever other keywords the message holds; then a
\* tracking keyword with a product name gives a tracking intent; then the
\* settings keywords, the listing keywords, the help keywords; and the fuzzy
\* fallback answers only when none of these matched.
C20_FirstMatchWins ==
  ( /\ fn.op = "extract_intent_with_context"
    /\ ~( /\ "context" \in DOMAIN fn
          /\ ContextShortcut(Strip(fn.message), fn.context) ) )
  => \A message \in {Strip(fn.message)} :
     \A named \in {Len(extract_product_name(message)) > 0} :
       IF ContainsAny(price_query_keywords, Lower(message)) /\ named
       THEN fn.result.action = "query_price"
       ELSE IF ContainsAny(track_product_keywords, Lower(message)) /\ named
       THEN fn.result.action \in {"track_product", "track_product_need_price"}
       ELSE IF ContainsAny(settings_keywords, message)
       THEN fn.result.action = "user_settings"
       ELSE IF ContainsAny(listing_keywords, message)
       THEN fn.result.action = "list_trackers"
       ELSE IF ContainsAny(help_keywords, message)
       THEN fn.result.action = "show_help"
       ELSE fn.result = fuzzy_intent_matching(message)

\* C20 happens: a message with a product name and the keywords of every
\* intent is a price query
C20_Witness ==
  /\ fn.op = "extract_intent_with_context"
  /\ fn.message = Msg_every_keyword
  /\ fn.result.action = "query_price"


\* C21: the conversation context resolves anaphora per user: when the request
\* handled last was a price query of user u classified with product P, a
\* following "追蹤這個" of u is classified track_product_need_price with
\* product_name P; and a "追蹤這個" of a user who has discussed no product,
\* following the price query of another user, is not resolved to that user's
\* product.
C21_AnaphoraResolved ==
  [][ ( /\ last.op = "message"
        /\ last.intent.action = "query_price"
        /\ now' = now + 1
        /\ last'.op = "message"
        /\ last'.message = Msg_track_this )
      => /\ last'.user = last.user
            => /\ last'.intent.action = "track_product_need_price"
               /\ last'.intent.product_name = last.intent.product_name
               /\ last'.intent.context_used
         /\ (last'.user # last.user /\ now = 1)
            => /\ ~last'.intent.context_used
               /\ last'.intent.product_name # last.intent.product_name
    ]_vars

\* C22: for a tracking message whose target amount is written as a composite
\* numeral ("追蹤 macbook 兩萬五千"), the classifier emits a track_product
\* intent whose target_price is the value the numeral encodes (25000).
C22_NumeralTargetPrice ==
  (fn.op = "extract_intent_with_context" /\ fn.message \in NumeralMessages)
  => /\ fn.result.action = "track_product"
     /\ fn.result.target_price
          = Some(NatToStr(EncodedValue(SubSeq(fn.message, Len(TrackNumeralPrefix) + 1,
                                              Len(fn.message)))))

\* the surviving items of a search: what the two sources return after their
\* relevance filters, FindPrice first (prefs is the preferences table before)
Survivors(product_name, user_id, prefs, findprice, biggo, sf) ==
  LET Second(first) ==
        first[1] \o SearchSource("BigGo", biggo, product_name, user_id, first[2],
                                 sf.read2, sf.write)[1]
  IN Second(SearchSource("FindPrice", findprice, product_name, user_id, prefs,
                         sf.read1, sf.write))

\* what makes two items one listing
Listing(item) == [name |-> item.name, price |-> item.price, link |-> item.link]
ListingsOf(items) == {Listing(items[k]) : k \in 1..Len(items)}
RECURSIVE SumOfListings(_)
SumOfListings(listings) ==
  IF listings = {} THEN 0
  ELSE LET l == CHOOSE x \in listings : TRUE
       IN l.price + SumOfListings(listings \ {l})

\* C23: the aggregate result is deduplicated: a listing (name, price, link)
\* returned by both sources, or twice by one source, appears once in
\* all_results and counts once in total_results and in avg_price.
C23_Deduplicated ==
  [][ last'.op = "query"
      => \A result \in {last'.result} :
         \A listings \in {ListingsOf(Survivors(last'.product_name, last'.user,
                                               user_preferences, last'.findprice,
                                               last'.biggo, last'.sf))} :
           /\ \A i, j \in 1..Len(result.all_results) :
                i # j => Listing(result.all_results[i]) # Listing(result.all_results[j])
           /\ result.total_results = Cardinality(listings)
           /\ listings # {}
                => FracEq(result.avg_price,
                          Frac(SumOfListings(listings), Cardinality(listings)))
    ]_vars

\* C24: for every non-empty set of surviving items, all_results is sorted by
\* ascending price and holds the (at most 20) first of the surviving items,
\* cheapest_item is its first element, min_price is the price of
\* cheapest_item and at most the price of every surviving item of every
\* source, max_price is the largest of their prices, avg_price lies between
\* min_price and max_price, and total_results is the number of surviving
\* items.
C24_SummaryStatistics ==
  [][ last'.op = "query"
      => \A result \in {last'.result} :
         \A surviving \in {Survivors(last'.product_name, last'.user, user_preferences,
                                     last'.findprice, last'.biggo, last'.sf)} :
           Len(surviving) > 0
           => /\ \A i, j \in 1..Len(result.all_results) :
                   i < j => result.all_results[i].price <= result.all_results[j].price
              /\ Len(result.all_results) = Min(20, Len(surviving))
              /\ ItemsOf(result.all_results) \subseteq ItemsOf(surviving)
              /\ result.cheapest_item = Some(result.all_results[1])
              /\ result.min_price = result.cheapest_item[1].price
              /\ \A k \in 1..Len(surviving) : result.min_price <= surviving[k].price
              /\ \E k \in 1..Len(surviving) : result.max_price = surviving[k].price
              /\ \A k \in 1..Len(surviving) : surviving[k].price <= result.max_price
              /\ FracLeq(Frac(result.min_price, 1), result.avg_price)
              /\ FracLeq(result.avg_price, Frac(result.max_price, 1))
              /\ result.total_results = Len(surviving)
    ]_vars

\* C24 happens: the two sources returned 22 listings of unsorted prices, and
\* the result holds the 20 cheapest in order
C24_Witness ==
  /\ last.op = "query"
  /\ last.findprice = Answer(LongFindPricePage)
  /\ last.biggo = Answer(LongBigGoPage)
  /\ last.result.total_results = 22
  /\ Len(last.result.all_results) = 20
  /\ last.result.min_price = 26100
  /\ last.result.max_price = 29900
  /\ last.result.all_results[20].price = 29700

\* the list handle_track_product works on: the cached list of the user, or
\* the list loaded from the store when the user has none
ListBefore(ut, table, u) ==
  IF Len(ut[u]) = 0 THEN load_user_trackers(table, u, FALSE) ELSE ut[u][1]

\* C25: after a track_product request was handled up to its immediate search:
\* when the search returned a cheapest price c, the tracker's last_price is c
\* and its last_checked is the time of the request, and the reply carries the
\* 'already met' notice exactly when c <= target_price and reports the gap
\* otherwise; when the search returned no item, last_price and last_checked
\* of the tracker are what they were before (None for a new tracker) and the
\* reply says that tracking has started.
C25_ImmediateCheck ==
  [][ ( /\ last'.op = "track"
        /\ now' = now + 1
        /\ last'.reply \in {"created", "updated"} )
      => \A name \in {last'.intent.product_name[1]} :
         \A target_price \in {ParseFloat(last'.intent.target_price[1])[1]} :
         \A result \in {search_comprehensive_prices(name, last'.user, user_preferences,
                          last'.findprice, last'.biggo, last'.sf)[1]} :
         \A before \in {ListBefore(user_trackers, price_trackers, last'.user)} :
         \A tracker \in {user_trackers'[last'.user][1][
                           FindExisting(user_trackers'[last'.user][1], name)]} :
           IF Len(result.cheapest_item) > 0
           THEN /\ tracker.last_price = Some(result.min_price)
                /\ tracker.last_checked = Some(now')
                /\ last'.note = IF result.min_price <= target_price THEN "met" ELSE "gap"
           ELSE /\ last'.note = "started"
                /\ IF FindExisting(before, name) > 0
                   THEN /\ tracker.last_price
                             = before[FindExisting(before, name)].last_price
                        /\ tracker.last_checked
                             = before[FindExisting(before, name)].last_checked
                   ELSE /\ tracker.last_price = None
                        /\ tracker.last_checked = None
    ]_vars

\* C25 happens: the search found the price 23000 for a tracker whose target
\* is 23000: last_price is 23000 and the reply says the target is met
C25_Witness ==
  /\ last.op = "track"
  /\ last.reply \in {"created", "updated"}
  /\ last.intent.target_price = Some(<<"2","3","0","0","0">>)
  /\ last.findprice = Answer(<<RawItem(Item_iPhone_15_128GB, 23000)>>)
  /\ last.note = "met"
  /\ \E k \in CachedFor(user_trackers, last.user, last.intent.product_name[1]) :
       /\ user_trackers[last.user][1][k].last_price = Some(23000)
       /\ user_trackers[last.user][1][k].last_checked = Some(now)

\* C26: alias normalization is idempotent and fixes the canonical names:
\* normalizing the result of normalize_product_name again changes nothing,
\* and each canonical product keyword of the alias table (iphone, airpods,
\* ps5, switch, macbook, viper) is its own normal form.
C26_NormalizeIdempotent ==
  fn.op = "normalize_product_name"
  => /\ normalize_product_name(fn.result) = fn.result
     /\ fn.text \in CanonicalNames => fn.result = fn.text

\* C27: the tracking command the system proposes round-trips: for every
\* product name n and price p, "n 低於 p 元時通知我" is classified track_product
\* with product_name n and target_price p.
C27_SuggestedCommandRoundTrip ==
  fn.op = "extract_intent_with_context"
  => \A n \in SuggestedNames, p \in SuggestedPrices :
       fn.message = SuggestedCommand(n, p)
       => /\ fn.result.action = "track_product"
          /\ fn.result.product_name = Some(n)
          /\ fn.result.target_price = Some(p)

C29_IntentAnalysisConsistent ==
  fn.op = "analyze_user_intent"
  => /\ fn.result.is_shopping_related = (Len(fn.result.intents) > 0)
     /\ fn.result.is_shopping_related = (fn.result.primary_intent # None)
     /\ fn.result.primary_intent # None
        => /\ \E k \in 1..Len(fn.result.intents) :
                fn.result.intents[k] = fn.result.primary_intent[1]
           /\ \A k \in 1..Len(fn.result.intents) :
                fn.result.intents[k].score <= fn.result.primary_intent[1].score
           /\ (\E k \in 1..Len(fn.result.intents) :
                 /\ fn.result.intents[k].type = "review"
                 /\ fn.result.intents[k].score = fn.result.primary_intent[1].score)
              => fn.result.primary_intent[1].type = "review"
     /\ ContainsAny(non_shopping_indicators, Lower(fn.message))
        => fn.result.intents = <<>>

\* a message whose review and price scores tie has been analysed
C29_Witness ==
  /\ fn.op = "analyze_user_intent"
  /\ Len(fn.result.intents) = 2
  /\ fn.result.intents[1].score = fn.result.intents[2].score
  /\ fn.result.primary_intent = Some(fn.result.intents[1])

\* a message with a non-shopping indicator and a price keyword was analysed
C29_NonShoppingSeen ==
  /\ fn.op = "analyze_user_intent"
  /\ ContainsAny(non_shopping_indicators, Lower(fn.message))
  /\ ContainsAny(price_keywords, Lower(fn.message))

\* C30: the price recorded by the immediate check survives a reload from the
\* store: when handle_track_product for (u, n) found the cheapest price c and
\* handle_list_trackers(u) follows, which rebuilds the user's list from the
\* store, the rebuilt list holds n with last_price c and the target price of
\* the cached tracker.
C30_CheckedPriceSurvivesReload ==
  [][ ( /\ last.op = "track"
        /\ last.reply \in {"created", "updated"}
        /\ last.note \in {"met", "gap"}
        /\ last'.op = "list"
        /\ last'.user = last.user )
      => \A name \in {last.intent.product_name[1]} :
         \A cached \in {user_trackers[last.user][1][
                          FindExisting(user_trackers[last.user][1], name)]} :
         \A listed \in {IF Len(user_trackers'[last.user]) > 0
                        THEN user_trackers'[last.user][1] ELSE <<>>} :
           /\ FindExisting(listed, name) > 0
           /\ listed[FindExisting(listed, name)].last_price = cached.last_price
           /\ listed[FindExisting(listed, name)].target_price = cached.target_price
    ]_vars
====
